---- MODULE Spec2Model ----
(***************************************************************************)
(* SSHLive: the session registry of electron/ssh-manager.ts (SSHManager).  *)
(* One state machine: the registry, the ssh2 transport of every session    *)
(* (its ready / error / close events, end() and destroy()), the promises   *)
(* of the calls in flight, the grace timers and the lifecycle              *)
(* notifications.  Every action is one JavaScript job: a call's            *)
(* synchronous part, or one event with all the listeners it runs.          *)
(***************************************************************************)
EXTENDS Integers, Sequences, FiniteSets, TLC

\* ------------------------------------------------------------------ bounds
MaxSessions == 2
MaxCalls == 1
MaxFairSessions == 1

Ids == 1..MaxSessions
\* A disconnectAll call is one call, and issues one disconnect per session.
CallIds == 1..(MaxCalls * (MaxSessions + 1))

\* The execute calls and the chunks their channels deliver, where the content
\* of the channels is followed.
MaxExecs == 2
MaxChunks == 2

\* The file-operation calls and the length of a transferred file.
MaxFileOps == 2
MaxFileLen == 2
FileIds == 1..MaxFileOps

\* The public-key texts fingerprinted in one run, and the length of a free text.
MaxKeys == 2
MaxTextLen == 3

\* The calls on the key manager, the runs of the application, the length of a
\* private key and the length of the encryption key.
MaxKeyCalls == 2
\* The invocations of the reconnect helper for one identifier.
MaxReconnects == 4
MaxRuns == 2
MaxPlainLen == 2
KeyLen == 1
ExecIds == 1..MaxExecs

VARIABLES
    connections,    \* SSHManager.connections: id -> session record
    transport,      \* the ssh2 Client behind connection.client, per id
    connectCalls,   \* the promises returned by connect, in call order
    calls,          \* the promises of disconnect / disconnectAll / executeCommand
    closeListeners, \* per id: the calls whose onClose is registered with once('close')
    timers,         \* the calls whose 5 s force-close timer is pending
    notifications,  \* per id: the lifecycle notifications emitted, in order
    channels,       \* per executeCommand call: its execution channel
    streams,        \* per executeCommand call: what its channel carried and its result
    subchannels,    \* per id: the file-transfer sub-channels opened, and the cached one
    xfers,          \* per file-operation call: its handle and its two streams
    remote,         \* the content of the remote file
    fingerprints,   \* the public-key texts fingerprinted so far, with the outcome
    storedKeys,     \* KeyManager.keys: id -> key record
    keysDirectory,  \* the files of ~/.ssh-live/keys: .encryption.key and <id>.json
    encryptionKey,  \* KeyManager.encryptionKey (empty: undefined)
    keyCalls,       \* the calls made on the key manager, with their outcome
    keyEvents,      \* the notifications the key manager emitted, in order
    reconnectAttempts, \* SSHManager.reconnectAttempts: id -> attempts counted
    reconnectWaits,    \* per id: the attempts whose backoff timer is pending
    reconnectEvents    \* per id: the reconnect notifications emitted, in order

\* The session registry and the calls on it.
lvars == <<connections, transport, connectCalls, calls, closeListeners, timers,
           notifications, channels>>
\* What the command and file-transfer channels carry, and the key texts.
svars == <<subchannels, xfers, remote>>
\* The key manager.
ksvars == <<storedKeys, keysDirectory, encryptionKey, keyCalls, keyEvents>>
kvars == <<fingerprints, ksvars>>
\* The reconnect helper.
rvars == <<reconnectAttempts, reconnectWaits, reconnectEvents>>
xvars == <<streams, svars, kvars, rvars>>
vars == <<lvars, xvars>>

Known == DOMAIN connections
\* An identifier that no connect call returns.
NoSession == 0

\* ---------------------------------------------------------------- helpers
\* Map.prototype.set: add the key, or overwrite the value of an existing key.
MapSet(m, k, v) == [x \in DOMAIN m \cup {k} |-> IF x = k THEN v ELSE m[x]]

Emit(n, id, kinds) == [n EXCEPT ![id] = @ \o kinds]

Min(S) == CHOOSE x \in S : \A y \in S : x <= y

\* uuidv4(): a token that no earlier call returned.  Identifiers are issued in
\* order, so the tokens issued so far are 1..Len(connectCalls).
\* Faulty variant: an identifier derived from the number of live sessions.
uuidv4Collide == Cardinality({i \in Known : connections[i].status \in {"connecting", "connected"}}) + 1
uuidv4 == Len(connectCalls) + 1

\* ------------------------------------------------------ the session record
\* connect, lines 46-53 and 60: the record as registered, with its client set
\* by the promise executor in the same synchronous run.
newConnection ==
    [status |-> "connecting", client |-> TRUE, sftp |-> FALSE, lastActivity |-> FALSE]

\* new Client(): a socket that has not finished its handshake.
\*   ready     it emitted ready
\*   closed    it emitted close
\*   ended     end() was called on it
\*   destroyed destroy() tore the socket down; its close event is still to come
\*   error     "none", or when it emitted error: in the "handshake" (before
\*             ready) or on the "established" link
newClient ==
    [ready |-> FALSE, closed |-> FALSE, ended |-> FALSE, destroyed |-> FALSE,
     error |-> "none"]

\* client.end() and client.destroy(): no effect on a socket that has closed.
end(t) == IF t.closed THEN t ELSE [t EXCEPT !.ended = TRUE]
\* Faulty variant: destroy() that tears nothing down.
destroyNoop(t) == t
destroy(t) == IF t.closed THEN t ELSE [t EXCEPT !.destroyed = TRUE]

\* The listeners that connect registers on the client (lines 62-81), as the
\* change each makes to the session record.
\* Faulty variants: listeners that leave the status as it was.
readyHandlerForgets(conn) == conn
readyHandler(conn) == [conn EXCEPT !.status = "connected"]
errorHandlerForgets(conn) == conn
errorHandler(conn) == [conn EXCEPT !.status = "error"]
closeHandler(conn) == [conn EXCEPT !.status = "disconnected"]
\* disconnect's onClose (lines 103-109).
onClose(conn) == [conn EXCEPT !.status = "disconnected"]

\* resolve(connection) / reject(error) of the promise connect returned: only a
\* pending promise settles.  ret is the status the session has as it settles.
Settle(cc, id, outcome, status) ==
    [k \in DOMAIN cc |->
        IF cc[k].id = id /\ cc[k].state = "pending"
        THEN [cc[k] EXCEPT !.state = outcome, !.ret = status]
        ELSE cc[k]]

\* A call record.  parent: the disconnectAll call that issued it, or 0.
Call(op, id, state, err, parent) ==
    [op |-> op, id |-> id, state |-> state, err |-> err, parent |-> parent]

StatusOf(id) == IF id \in Known THEN connections[id].status ELSE "none"

\* The calls made by the application itself, not by disconnectAll.
Issued == Cardinality({c \in DOMAIN calls : calls[c].parent = 0})

\* The session manager after construction, with nothing fingerprinted.
SessionInit ==
    /\ connections = <<>>
    /\ transport = <<>>
    /\ connectCalls = <<>>
    /\ calls = <<>>
    /\ closeListeners = [i \in Ids |-> <<>>]
    /\ timers = {}
    /\ notifications = [i \in Ids |-> <<>>]
    /\ channels = <<>>
    /\ streams = <<>>
    /\ subchannels = [i \in Ids |-> [opened |-> 0, cached |-> 0]]
    /\ xfers = <<>>
    /\ remote = <<>>
    /\ fingerprints = <<>>
    /\ reconnectAttempts = <<>>
    /\ reconnectWaits = [i \in {NoSession} \cup Ids |-> {}]
    /\ reconnectEvents = [i \in {NoSession} \cup Ids |-> <<>>]

\* The key manager after construction (lines 38-45): no key, no encryption key.
KeyManagerInit ==
    /\ storedKeys = <<>>
    /\ encryptionKey = <<>>
    /\ keyCalls = <<>>
    /\ keyEvents = <<>>

Init ==
    /\ SessionInit
    /\ KeyManagerInit
    /\ keysDirectory = [encryptionKeyFile |-> <<>>, files |-> <<>>]

\* ------------------------------------------------------------------ connect
\* connect(config), lines 44-94, up to client.connect(): the promise is pending.
connect ==
    /\ Len(connectCalls) < MaxSessions
    /\ LET id == uuidv4 IN
        /\ connections' = MapSet(connections, id, newConnection)
        /\ transport' = MapSet(transport, id, newClient)
        /\ connectCalls' = Append(connectCalls, [id |-> id, state |-> "pending", ret |-> "none"])
        /\ notifications' = Emit(notifications, id, <<"connecting">>)
        /\ closeListeners' = [closeListeners EXCEPT ![id] = <<>>]
    /\ UNCHANGED <<calls, timers, channels>>

\* The client emits ready: the handshake and the authentication succeeded.
transportReady(id) ==
    /\ id \in Known
    /\ ~transport[id].ready
    /\ ~transport[id].closed
    /\ transport[id].error = "none"
    /\ ~transport[id].destroyed
    /\ transport' = [transport EXCEPT ![id].ready = TRUE]
    /\ connections' = [connections EXCEPT ![id] = readyHandler(@)]
    /\ notifications' = Emit(notifications, id, <<"connected">>)
    /\ connectCalls' = Settle(connectCalls, id, "resolved", connections'[id].status)
    /\ UNCHANGED <<calls, closeListeners, timers, channels>>

\* The client emits error: a failed handshake or authentication, a timeout, or
\* a failure of the established link.  The socket closes afterwards.
transportError(id) ==
    /\ id \in Known
    /\ ~transport[id].closed
    /\ transport[id].error = "none"
    /\ ~transport[id].destroyed
    /\ transport' = [transport EXCEPT ![id].error =
            IF transport[id].ready THEN "established" ELSE "handshake"]
    /\ connections' = [connections EXCEPT ![id] = errorHandler(@)]
    /\ notifications' = Emit(notifications, id, <<"error">>)
    /\ connectCalls' = Settle(connectCalls, id, "rejected", connections'[id].status)
    /\ UNCHANGED <<calls, closeListeners, timers, channels>>

\* The client emits close, once: the remote closed, the link failed, end() was
\* acknowledged or destroy() tore the socket down.  connect's close listener
\* runs first, then every onClose that disconnect registered, in order.
CloseKinds(n) == [k \in 1..(n + 1) |-> "disconnected"]
transportClose(id) ==
    /\ id \in Known
    /\ ~transport[id].closed
    /\ LET waiting == closeListeners[id]
           member(c) == \E k \in 1..Len(waiting) : waiting[k] = c
       IN
        /\ transport' = [transport EXCEPT ![id].closed = TRUE]
        /\ connections' = [connections EXCEPT ![id] =
                IF Len(waiting) > 0 THEN onClose(closeHandler(@)) ELSE closeHandler(@)]
        /\ notifications' = Emit(notifications, id, CloseKinds(Len(waiting)))
        /\ calls' = [c \in DOMAIN calls |->
                IF member(c) THEN [calls[c] EXCEPT !.state = "resolved"] ELSE calls[c]]
        /\ closeListeners' = [closeListeners EXCEPT ![id] = <<>>]
    /\ UNCHANGED <<connectCalls, timers, channels>>

\* --------------------------------------------------------------- disconnect
\* disconnect's guard, lines 97-100: the id is unknown, or its record has no client.
disconnectGuard(id) == id \notin Known \/ ~connections[id].client

\* Faulty variant: the notification is emitted before the guard throws.
disconnectFailsLoudly(id) ==
    /\ calls' = Append(calls, Call("disconnect", id, "rejected", "SessionNotFound", 0))
    /\ notifications' = Emit(notifications, id, <<"disconnected">>)
    /\ UNCHANGED <<connections, transport, connectCalls, closeListeners, timers, channels>>
\* What a failed guard leaves behind: the rejected call and nothing else.
disconnectFails(id) ==
    /\ calls' = Append(calls, Call("disconnect", id, "rejected", "SessionNotFound", 0))
    /\ UNCHANGED <<connections, transport, connectCalls, closeListeners, timers,
                   notifications, channels>>

\* Lines 102-120 for the sessions ids[1..n], whose calls are c+1 .. c+n: each
\* registers onClose with once('close'), calls end() and starts its timer.
\* (Used with one id by disconnect and with every key by disconnectAll.)
Index(ids, id) == CHOOSE k \in 1..Len(ids) : ids[k] = id
Requested(ids) == {ids[k] : k \in {j \in 1..Len(ids) : ~disconnectGuard(ids[j])}}
requestClose(c, ids) ==
    /\ closeListeners' = [i \in Ids |->
            IF i \in Requested(ids) THEN Append(closeListeners[i], c + Index(ids, i))
            ELSE closeListeners[i]]
    /\ transport' = [i \in DOMAIN transport |->
            IF i \in Requested(ids) THEN end(transport[i]) ELSE transport[i]]
    /\ timers' = timers \cup {c + k : k \in {j \in 1..Len(ids) : ids[j] \in Requested(ids)}}

\* disconnect(connectionId), lines 96-121, up to the return of the pending promise.
disconnect(id) ==
    /\ Issued < MaxCalls
    /\ IF disconnectGuard(id)
       THEN disconnectFails(id)
       ELSE /\ calls' = Append(calls, Call("disconnect", id, "pending", "none", 0))
            /\ requestClose(Len(calls), <<id>>)
            /\ UNCHANGED <<connections, connectCalls, notifications, channels>>

\* The 5 s timer of call c fires (lines 115-119).
timerDestroys(conn) == conn.status # "disconnected"
timerFire(c) ==
    /\ c \in timers
    /\ timers' = timers \ {c}
    /\ LET id == calls[c].id IN
        transport' = [transport EXCEPT ![id] =
            IF timerDestroys(connections[id]) THEN destroy(@) ELSE @]
    /\ UNCHANGED <<connections, connectCalls, calls, closeListeners, notifications, channels>>

\* ------------------------------------------------------------ disconnectAll
RECURSIVE SortedSeq(_)
SortedSeq(S) == IF S = {} THEN <<>> ELSE <<Min(S)>> \o SortedSeq(S \ {Min(S)})

\* Array.from(this.connections.keys()), line 124: every key, in insertion order.
\* Faulty variant: only the connected sessions are disconnected.
keysConnectedOnly == SortedSeq({i \in Known : connections[i].status = "connected"})
keys == SortedSeq(Known)

\* disconnectAll(), lines 123-128, up to the await: disconnect(id) is called for
\* every key in turn, each call running to the return of its promise.
disconnectAll ==
    LET ids == keys
        c == Len(calls) + 1
        sub(k) == IF disconnectGuard(ids[k])
                  THEN Call("disconnect", ids[k], "rejected", "SessionNotFound", c)
                  ELSE Call("disconnect", ids[k], "pending", "none", c)
    IN
    /\ Issued < MaxCalls
    /\ calls' = calls \o <<Call("disconnectAll", 0, "pending", "none", 0)>>
                      \o [k \in 1..Len(ids) |-> sub(k)]
    /\ requestClose(c, ids)
    /\ UNCHANGED <<connections, connectCalls, notifications, channels>>

\* .catch(console.error), line 125: a rejected disconnect becomes a fulfilled promise.
catch(state) == IF state = "rejected" THEN "resolved" ELSE state

\* await Promise.all(...), line 127: settles when every caught promise has.
SubCalls(c) == {k \in DOMAIN calls : calls[k].parent = c}
disconnectAllReturn(c) ==
    /\ c \in DOMAIN calls
    /\ calls[c].op = "disconnectAll"
    /\ calls[c].state = "pending"
    /\ \A k \in SubCalls(c) : catch(calls[k].state) # "pending"
    /\ calls' = [calls EXCEPT ![c].state =
            IF \E k \in SubCalls(c) : catch(calls[k].state) = "rejected"
            THEN "rejected" ELSE "resolved"]
    /\ UNCHANGED <<connections, transport, connectCalls, closeListeners, timers,
                   notifications, channels>>

\* ----------------------------------------------------------- executeCommand
\* executeCommand's guard, lines 131-134.
\* Faulty variant: the status is not looked at.
executeGuardKnownOnly(id) == id \notin Known \/ ~connections[id].client
executeGuard(id) ==
    id \notin Known \/ ~connections[id].client \/ connections[id].status # "connected"

\* executeCommand(connectionId, command), lines 130-142, up to client.exec():
\* a failed guard rejects the call; otherwise a channel open is requested.
executeCommandCall(id) ==
    /\ IF executeGuard(id)
       THEN /\ calls' = Append(calls, Call("execute", id, "rejected", "SessionUnavailable", 0))
            /\ UNCHANGED channels
       ELSE /\ calls' = Append(calls, Call("execute", id, "pending", "none", 0))
            /\ channels' = MapSet(channels, Len(calls) + 1, "opening")
    /\ UNCHANGED <<connections, transport, connectCalls, closeListeners, timers, notifications>>

\* executeCommand, as one of the calls the application makes.
executeCommand(id) == Issued < MaxCalls /\ executeCommandCall(id)

\* exec's callback with an error (lines 143-146): the call fails.
execFailed(c) ==
    /\ c \in DOMAIN channels
    /\ channels[c] = "opening"
    /\ channels' = [channels EXCEPT ![c] = "failed"]
    /\ calls' = [calls EXCEPT ![c].state = "rejected", ![c].err = "TransportError"]
    /\ UNCHANGED <<connections, transport, connectCalls, closeListeners, timers, notifications>>

\* exec's callback with a stream (lines 148-169): the channel is open.
execOpened(c) ==
    /\ c \in DOMAIN channels
    /\ channels[c] = "opening"
    /\ transport[calls[c].id].ready
    /\ ~transport[calls[c].id].closed
    /\ channels' = [channels EXCEPT ![c] = "open"]
    /\ UNCHANGED <<connections, transport, connectCalls, calls, closeListeners, timers,
                   notifications>>

\* The stream emits close (lines 148-161): the session's last activity is
\* stamped and the call returns its result.
\* Faulty variant: the completion also marks the session connected.
streamCloseRevives(c) ==
    /\ c \in DOMAIN channels
    /\ channels[c] = "open"
    /\ channels' = [channels EXCEPT ![c] = "closed"]
    /\ connections' = [connections EXCEPT ![calls[c].id].lastActivity = TRUE,
                                          ![calls[c].id].status = "connected"]
    /\ calls' = [calls EXCEPT ![c].state = "resolved"]
    /\ UNCHANGED <<transport, connectCalls, closeListeners, timers, notifications>>
streamClose(c) ==
    /\ c \in DOMAIN channels
    /\ channels[c] = "open"
    /\ channels' = [channels EXCEPT ![c] = "closed"]
    /\ connections' = [connections EXCEPT ![calls[c].id].lastActivity = TRUE]
    /\ calls' = [calls EXCEPT ![c].state = "resolved"]
    /\ UNCHANGED <<transport, connectCalls, closeListeners, timers, notifications>>

\* ------------------------------------------------------------ specification
Next ==
    \/ connect /\ UNCHANGED xvars
    \/ \E id \in Ids : transportReady(id) /\ UNCHANGED xvars
    \/ \E id \in Ids : transportError(id) /\ UNCHANGED xvars
    \/ \E id \in Ids : transportClose(id) /\ UNCHANGED xvars
    \/ \E id \in Ids : disconnect(id) /\ UNCHANGED xvars
    \/ \E c \in CallIds : timerFire(c) /\ UNCHANGED xvars
    \/ disconnectAll /\ UNCHANGED xvars
    \/ \E c \in CallIds : disconnectAllReturn(c) /\ UNCHANGED xvars
    \/ \E id \in Ids : executeCommand(id) /\ UNCHANGED xvars
    \/ \E c \in CallIds : execFailed(c) /\ UNCHANGED xvars
    \/ \E c \in CallIds : execOpened(c) /\ UNCHANGED xvars
    \/ \E c \in CallIds : streamClose(c) /\ UNCHANGED xvars

Spec == Init /\ [][Next]_vars

\* The event loop runs a timer that is due, and a destroyed socket emits close.
forcedClose(id) == id \in Known /\ transport[id].destroyed /\ transportClose(id)
\* The liveness checks follow the sessions of the first MaxFairSessions connect calls.
connectFair == Len(connectCalls) < MaxFairSessions /\ connect
FairNext ==
    \/ connectFair /\ UNCHANGED xvars
    \/ \E id \in Ids : transportReady(id) /\ UNCHANGED xvars
    \/ \E id \in Ids : transportError(id) /\ UNCHANGED xvars
    \/ \E id \in Ids : transportClose(id) /\ UNCHANGED xvars
    \/ \E id \in Ids : disconnect(id) /\ UNCHANGED xvars
    \/ \E c \in CallIds : timerFire(c) /\ UNCHANGED xvars
    \/ disconnectAll /\ UNCHANGED xvars
    \/ \E c \in CallIds : disconnectAllReturn(c) /\ UNCHANGED xvars
    \/ \E id \in Ids : executeCommand(id) /\ UNCHANGED xvars
    \/ \E c \in CallIds : execFailed(c) /\ UNCHANGED xvars
    \/ \E c \in CallIds : execOpened(c) /\ UNCHANGED xvars
    \/ \E c \in CallIds : streamClose(c) /\ UNCHANGED xvars
FairSpec ==
    /\ Init /\ [][FairNext]_vars
    /\ \A c \in CallIds : WF_vars(timerFire(c) /\ UNCHANGED xvars)
    /\ \A id \in Ids : WF_vars(forcedClose(id) /\ UNCHANGED xvars)

\* ------------------------------------------------- what a command's channel carries
\* The bytes a channel delivers: "a" is a one-byte character, "L" "T" are the
\* lead and the trailing byte of a two-byte character.
Chunks == {<<"a">>, <<"L", "T">>, <<"L">>}

\* The codes the stream's close event may carry.  NoCode: the event carried
\* none (undefined or null); Unset: the stream has not closed yet.
NoCode == 0 - 1
Unset == 0 - 2
ExitCodes == {NoCode, 0, 1}

\* data.toString(), lines 164 and 168: the chunk decoded on its own as UTF-8.
\* A byte that is no complete character in this chunk decodes to "?".
RECURSIVE toString(_)
toString(data) ==
    IF data = <<>> THEN <<>>
    ELSE IF Head(data) = "a" THEN <<"a">> \o toString(Tail(data))
    ELSE IF Head(data) = "L" /\ Len(data) >= 2 /\ data[2] = "T"
         THEN <<"e">> \o toString(Tail(Tail(data)))
    ELSE <<"?">> \o toString(Tail(data))

\* The locals of one executeCommand call (lines 137-140), the chunks its
\* channel delivered, the code its close event carried and the result it
\* returned (a sequence: empty until resolve is called).  resolves counts the calls of resolve; errorInFlight records that
\* the transport reported an error while the call was pending.
newStream ==
    [stdout |-> <<>>, stderr |-> <<>>, exitCode |-> 0,
     outChunks |-> <<>>, errChunks |-> <<>>, code |-> Unset,
     result |-> <<>>, resolves |-> 0, errorInFlight |-> FALSE]

\* stdout += data.toString() (line 164), on the locals of call c alone.
\* Faulty variant: one buffer shared by every call in flight.
onDataShared(st, c, data) ==
    [k \in DOMAIN st |->
        IF k = c
        THEN [st[k] EXCEPT !.stdout = @ \o toString(data), !.outChunks = Append(@, data)]
        ELSE [st[k] EXCEPT !.stdout = @ \o toString(data)]]
onData(st, c, data) ==
    [st EXCEPT ![c].stdout = @ \o toString(data), ![c].outChunks = Append(@, data)]

\* stderr += data.toString() (line 168).
onStderrData(st, c, data) ==
    [st EXCEPT ![c].stderr = @ \o toString(data), ![c].errChunks = Append(@, data)]

\* exitCode = code || 0 (line 149).
\* Faulty variant: a missing code is reported as 1.
exitCodeOfFailing(code) == IF code = NoCode THEN 1 ELSE code
exitCodeOf(code) == IF code = NoCode \/ code = 0 THEN 0 ELSE code

\* The stream's close listener (lines 148-161): the result is built from the
\* locals and handed to resolve.
onStreamClose(st, c, code) ==
    [st EXCEPT ![c].exitCode = exitCodeOf(code),
               ![c].code = code,
               ![c].result = <<[stdout |-> st[c].stdout, stderr |-> st[c].stderr,
                                exitCode |-> exitCodeOf(code)]>>,
               ![c].resolves = @ + 1]

\* The chunks the channels have delivered so far.
RECURSIVE Sum(_, _)
Sum(f, S) == IF S = {} THEN 0 ELSE LET x == CHOOSE y \in S : TRUE IN f[x] + Sum(f, S \ {x})
Delivered ==
    Sum([c \in DOMAIN streams |-> Len(streams[c].outChunks) + Len(streams[c].errChunks)],
        DOMAIN streams)

\* connect, for the one session the commands are run on.
execConnect == connectCalls = <<>> /\ connect /\ UNCHANGED xvars

\* The transport reports an error: the calls in flight on the session see no
\* event of their own (executeCommand registers no error listener).
execTransportError(id) ==
    /\ transportError(id)
    /\ streams' = [c \in DOMAIN streams |->
            IF calls[c].id = id /\ calls[c].state = "pending"
            THEN [streams[c] EXCEPT !.errorInFlight = TRUE] ELSE streams[c]]
    /\ UNCHANGED <<svars, kvars, rvars>>

\* executeCommand with its locals (lines 130-142).
execute(id) ==
    /\ Len(calls) < MaxExecs
    /\ executeCommandCall(id)
    /\ streams' = IF executeGuard(id) THEN streams
                  ELSE MapSet(streams, Len(calls) + 1, newStream)
    /\ UNCHANGED <<svars, kvars, rvars>>

\* The stream emits data (line 163).
streamData(c, data) ==
    /\ c \in DOMAIN channels
    /\ channels[c] = "open"
    /\ ~transport[calls[c].id].closed
    /\ Delivered < MaxChunks
    /\ streams' = onData(streams, c, data)
    /\ UNCHANGED <<lvars, svars, kvars, rvars>>

\* The stream's stderr emits data (line 167).
stderrData(c, data) ==
    /\ c \in DOMAIN channels
    /\ channels[c] = "open"
    /\ ~transport[calls[c].id].closed
    /\ Delivered < MaxChunks
    /\ streams' = onStderrData(streams, c, data)
    /\ UNCHANGED <<lvars, svars, kvars, rvars>>

\* The stream emits close with the code the remote reported, or with none
\* when the channel closes without an exit status or the transport is gone.
streamCloseCode(c, code) ==
    /\ streamClose(c)
    /\ transport[calls[c].id].closed => code = NoCode
    /\ streams' = onStreamClose(streams, c, code)
    /\ UNCHANGED <<svars, kvars, rvars>>

ExecNext ==
    \/ execConnect
    \/ \E id \in Ids : transportReady(id) /\ UNCHANGED xvars
    \/ \E id \in Ids : execTransportError(id)
    \/ \E id \in Ids : transportClose(id) /\ UNCHANGED xvars
    \/ \E id \in Known \cup {uuidv4} : execute(id)
    \/ \E c \in ExecIds : execFailed(c) /\ UNCHANGED xvars
    \/ \E c \in ExecIds : execOpened(c) /\ UNCHANGED xvars
    \/ \E c \in ExecIds, data \in Chunks : streamData(c, data)
    \/ \E c \in ExecIds, data \in Chunks : stderrData(c, data)
    \/ \E c \in ExecIds, code \in ExitCodes : streamCloseCode(c, code)
ExecSpec == Init /\ [][ExecNext]_vars


\* ==================================================================== claims
NewCalls == DOMAIN calls' \ DOMAIN calls
Changed(id) == id \in Known /\ connections'[id].status # connections[id].status
Has(seq, x) == \E k \in 1..Len(seq) : seq[k] = x
PendingDisconnect(c) ==
    /\ c \in DOMAIN calls
    /\ calls[c].op = "disconnect"
    /\ calls[c].state = "pending"

\* C1: every change of a session's status is connecting -> connected,
\* connecting -> error or connected -> disconnected.
C1_OnlyThreeTransitions ==
    [][\A id \in Ids : Changed(id) =>
          <<connections[id].status, connections'[id].status>> \in
              {<<"connecting", "connected">>, <<"connecting", "error">>,
               <<"connected", "disconnected">>}]_vars

\* C2: error and disconnected are terminal: a session in either status keeps
\* that status in every later step.
C2_TerminalStatuses ==
    [][\A id \in Ids : id \in Known /\ connections[id].status \in {"error", "disconnected"} =>
          connections'[id].status = connections[id].status]_vars

\* C3: a connect call registers its session under an identifier that no
\* earlier connect call was given and that is no key of the registry, and
\* leaves every entry the registry already holds as it was.
C3_FreshIdentifier ==
    [][Len(connectCalls') > Len(connectCalls) =>
          LET id == connectCalls'[Len(connectCalls')].id IN
            /\ id \notin Known
            /\ \A k \in DOMAIN connectCalls : connectCalls[k].id # id
            /\ \A i \in Known : connections'[i] = connections[i]
            /\ id \in DOMAIN connections']_vars
\* Two sessions are registered, the first of them already in a final status.
C3_Witness ==
    /\ Len(connectCalls) = 2
    /\ Cardinality(Known) = 2
    /\ connections[connectCalls[1].id].status \in {"error", "disconnected"}

\* C4: a connect call that has returned a session returned it when the
\* transport had reported ready, with status connected at that moment.
C4_ReturnsConnected ==
    \A k \in DOMAIN connectCalls :
        connectCalls[k].state = "resolved" =>
            /\ connectCalls[k].ret = "connected"
            /\ transport[connectCalls[k].id].ready
C4_Witness ==
    \E k \in DOMAIN connectCalls : connectCalls[k].state = "resolved"

C6_UnknownIdFails ==
    [][\A c \in NewCalls :
          calls'[c].op = "disconnect" /\ calls'[c].id \notin Known =>
            /\ calls'[c].state = "rejected"
            /\ calls'[c].err = "SessionNotFound"
            /\ UNCHANGED <<connections, transport, connectCalls, closeListeners,
                           timers, notifications, channels>>]_vars
C6_Witness ==
    \E c \in DOMAIN calls :
        /\ calls[c].op = "disconnect"
        /\ calls[c].err = "SessionNotFound"
        /\ calls[c].id \notin Known

\* C7: a pending disconnect of a session that is connected leads to that call
\* having completed with the session disconnected, whether or not the remote
\* closes: the timer destroys the transport, and the destroyed transport closes.
C7_ConnectedDisconnectCompletes ==
    \A c \in CallIds :
        (PendingDisconnect(c) /\ connections[calls[c].id].status = "connected")
            ~> /\ c \in DOMAIN calls
               /\ calls[c].op = "disconnect"
               /\ calls[c].state = "resolved"
               /\ connections[calls[c].id].status = "disconnected"
\* A disconnect of a session that had connected completed by the forced close.
C7_Witness ==
    \E c \in DOMAIN calls :
        /\ calls[c].op = "disconnect"
        /\ calls[c].state = "resolved"
        /\ transport[calls[c].id].ready
        /\ transport[calls[c].id].destroyed
        /\ transport[calls[c].id].error = "none"
        /\ connections[calls[c].id].status = "disconnected"

\* C8: a disconnect of any id in the registry eventually completes, with the
\* session disconnected and a disconnected notification emitted for it.
C8_KnownDisconnectCompletes ==
    \A c \in CallIds :
        (PendingDisconnect(c) /\ calls[c].id \in Known)
            ~> /\ c \in DOMAIN calls
               /\ calls[c].op = "disconnect"
               /\ calls[c].state = "resolved"
               /\ connections[calls[c].id].status = "disconnected"
               /\ Has(notifications[calls[c].id], "disconnected")

\* C9: disconnectAll never fails, and the step that calls it requests a
\* disconnect for every session of the registry: one call per session, which
\* has its listener registered, its timer started and end() called on a
\* transport that has not closed.
C9_DisconnectAllRequestsAll ==
    [][\A c \in DOMAIN calls' :
          calls'[c].op = "disconnectAll" =>
            /\ calls'[c].state # "rejected"
            /\ c \in NewCalls =>
                \A id \in Known :
                    \E k \in DOMAIN calls' :
                        /\ calls'[k].parent = c
                        /\ calls'[k].id = id
                        /\ calls'[k].state = "pending"
                        /\ Has(closeListeners'[id], k)
                        /\ k \in timers'
                        /\ ~transport[id].closed => transport'[id].ended]_vars
\* disconnectAll has returned after disconnecting two sessions.
C9_Witness ==
    \E c \in DOMAIN calls :
        /\ calls[c].op = "disconnectAll"
        /\ calls[c].state = "resolved"
        /\ Cardinality(SubCalls(c)) = 2
        /\ \A k \in SubCalls(c) : calls[k].state = "resolved"

\* C10: executeCommand on an id that is unknown, or whose session is
\* connecting, error or disconnected, fails with the session-unavailable
\* error, opens no channel and leaves the registry and the transports as they were.
C10_UnavailableExecuteFails ==
    [][\A c \in NewCalls :
          (/\ calls'[c].op = "execute"
           /\ \/ calls'[c].id \notin Known
              \/ connections[calls'[c].id].status \in {"connecting", "error", "disconnected"}) =>
            /\ calls'[c].state = "rejected"
            /\ calls'[c].err = "SessionUnavailable"
            /\ UNCHANGED <<connections, transport, connectCalls, closeListeners,
                           timers, notifications, channels>>]_vars
\* An execute call on a registered session was refused.
C10_Witness ==
    \E c \in DOMAIN calls :
        /\ calls[c].op = "execute"
        /\ calls[c].err = "SessionUnavailable"
        /\ calls[c].id \in Known

\* ------------------------------------------------------------ file transfer
Bytes == {"x", "y"}

\* The contents a local file may have: the byte strings up to MaxFileLen.
RECURSIVE Contents(_)
Contents(n) ==
    IF n = 0 THEN {<<>>}
    ELSE LET S == Contents(n - 1) IN S \cup {Append(f, b) : f \in S, b \in Bytes}

\* getSFTP's guard, lines 175-178.
\* Faulty variant: the status is not looked at.
getSFTPGuardKnownOnly(id) == id \notin Known \/ ~connections[id].client
getSFTPGuard(id) ==
    id \notin Known \/ ~connections[id].client \/ connections[id].status # "connected"

\* The state of one uploadFile, downloadFile or listFiles call.
\*   handle: the sub-channel it uses (0: getSFTP has not returned yet);
\*   src, dst: its source and its destination stream;
\*   source: the content of the local file an upload reads; pos: the bytes moved;
\*   queued: bytes handed to the local write stream and not yet on disk;
\*   disk: the content of the local file a download writes;
\*   atSuccess: that content at the moment the download reported success;
\*   prior: the calls that had reported success when this one was issued.
newXfer(op, handle, source) ==
    [op |-> op, handle |-> handle, source |-> source, pos |-> 0,
     src |-> IF handle = 0 \/ op = "list" THEN "none" ELSE "open",
     dst |-> IF handle = 0 \/ op = "list" THEN "none" ELSE "open",
     queued |-> <<>>, disk |-> <<>>, atSuccess |-> <<>>,
     prior |-> {k \in DOMAIN calls : calls[k].state = "resolved"}]

\* The streams of a call are created once getSFTP has returned (lines 200-208
\* and 218-226); the destination file is opened for writing, which empties it.
startStreams(x, handle) ==
    [x EXCEPT !.handle = handle,
              !.src = IF x.op = "list" THEN "none" ELSE "open",
              !.dst = IF x.op = "list" THEN "none" ELSE "open"]

Truncated(op, content) == IF op = "upload" THEN <<>> ELSE content

\* A write of one byte at an offset of the remote file.
WriteAt(content, pos, b) ==
    IF pos < Len(content) THEN [content EXCEPT ![pos + 1] = b]
    ELSE [k \in 1..(pos + 1) |->
            IF k <= Len(content) THEN content[k] ELSE IF k = pos + 1 THEN b ELSE "0"]

\* A promise settles once: reject and resolve after that are without effect.
SettleCall(cc, c, outcome, err) ==
    IF cc[c].state = "pending" THEN [cc EXCEPT ![c].state = outcome, ![c].err = err] ELSE cc

Alive(id) == transport[id].ready /\ ~transport[id].closed

\* connect, for the one session the files are moved on.
sftpConnect == connectCalls = <<>> /\ connect /\ UNCHANGED xvars

\* uploadFile, downloadFile or listFiles up to the return of getSFTP (lines
\* 174-195, 199, 217, 235): a failed guard rejects the call; a cached handle is
\* returned at once; otherwise a sub-channel is requested with client.sftp().
fileOp(op, id, source) ==
    /\ Len(calls) < MaxFileOps
    /\ IF getSFTPGuard(id)
       THEN /\ calls' = Append(calls, Call(op, id, "rejected", "SessionUnavailable", 0))
            /\ xfers' = MapSet(xfers, Len(calls) + 1, newXfer(op, 0, <<>>))
            /\ UNCHANGED remote
       ELSE /\ calls' = Append(calls, Call(op, id, "pending", "none", 0))
            /\ xfers' = MapSet(xfers, Len(calls) + 1,
                               newXfer(op, subchannels[id].cached, source))
            /\ remote' = IF subchannels[id].cached # 0 THEN Truncated(op, remote) ELSE remote
    /\ UNCHANGED <<connections, transport, connectCalls, closeListeners, timers,
                   notifications, channels, streams, kvars, rvars, subchannels>>

Waiting(c) ==
    /\ c \in DOMAIN xfers
    /\ calls[c].state = "pending"
    /\ xfers[c].handle = 0

\* client.sftp's callback with a handle (lines 190-192): the handle is cached
\* and returned, and the caller goes on to its streams.
sftpOpened(c) ==
    /\ Waiting(c)
    /\ Alive(calls[c].id)
    /\ LET id == calls[c].id
           handle == subchannels[id].opened + 1
       IN
        /\ subchannels' = [subchannels EXCEPT ![id] = [opened |-> handle, cached |-> handle]]
        /\ connections' = [connections EXCEPT ![id].sftp = TRUE]
        /\ xfers' = [xfers EXCEPT ![c] = startStreams(@, handle)]
        /\ remote' = Truncated(xfers[c].op, remote)
    /\ UNCHANGED <<transport, connectCalls, calls, closeListeners, timers, notifications,
                   channels, streams, kvars, rvars>>

\* client.sftp's callback with an error (lines 186-189).
sftpFailed(c) ==
    /\ Waiting(c)
    /\ calls' = SettleCall(calls, c, "rejected", "TransportError")
    /\ UNCHANGED <<connections, transport, connectCalls, closeListeners, timers,
                   notifications, channels, xvars>>

Streaming(c, op) ==
    /\ c \in DOMAIN xfers
    /\ xfers[c].op = op
    /\ xfers[c].handle # 0

\* sftp.readdir's callback (lines 238-253).
readdirDone(c) ==
    /\ Streaming(c, "list")
    /\ calls[c].state = "pending"
    /\ Alive(calls[c].id)
    /\ calls' = SettleCall(calls, c, "resolved", "none")
    /\ UNCHANGED <<connections, transport, connectCalls, closeListeners, timers,
                   notifications, channels, xvars>>

readdirFailed(c) ==
    /\ Streaming(c, "list")
    /\ calls[c].state = "pending"
    /\ calls' = SettleCall(calls, c, "rejected", "TransferError")
    /\ UNCHANGED <<connections, transport, connectCalls, closeListeners, timers,
                   notifications, channels, xvars>>

\* ---- uploadFile, lines 200-208: readStream.pipe(writeStream)
\* The local read stream emits data and the pipe writes it to the remote file.
uploadData(c) ==
    /\ Streaming(c, "upload")
    /\ xfers[c].src = "open" /\ xfers[c].dst = "open"
    /\ Alive(calls[c].id)
    /\ xfers[c].pos < Len(xfers[c].source)
    /\ remote' = WriteAt(remote, xfers[c].pos, xfers[c].source[xfers[c].pos + 1])
    /\ xfers' = [xfers EXCEPT ![c].pos = @ + 1]
    /\ UNCHANGED <<lvars, streams, kvars, rvars, subchannels>>

\* The local read stream ends and the pipe ends the remote write stream.
uploadEnd(c) ==
    /\ Streaming(c, "upload")
    /\ xfers[c].src = "open" /\ xfers[c].dst = "open"
    /\ xfers[c].pos = Len(xfers[c].source)
    /\ xfers' = [xfers EXCEPT ![c].src = "ended", ![c].dst = "ending"]
    /\ UNCHANGED <<lvars, streams, kvars, rvars, subchannels, remote>>

\* The local read stream emits error.  uploadFile has no listener for it, and
\* a pipe does not end its destination when its source fails.
uploadSourceError(c) ==
    /\ Streaming(c, "upload")
    /\ xfers[c].src = "open"
    /\ xfers' = [xfers EXCEPT ![c].src = "errored"]
    /\ UNCHANGED <<lvars, streams, kvars, rvars, subchannels, remote>>

\* The remote write stream emits error: writeStream.on('error', reject), line 205.
uploadDestError(c) ==
    /\ Streaming(c, "upload")
    /\ xfers[c].dst \in {"open", "ending"}
    /\ xfers' = [xfers EXCEPT ![c].dst = "errored"]
    /\ calls' = SettleCall(calls, c, "rejected", "TransferError")
    /\ UNCHANGED <<connections, transport, connectCalls, closeListeners, timers,
                   notifications, channels, streams, kvars, rvars, subchannels, remote>>

\* The remote write stream emits close, after its end was acknowledged or after
\* its error: writeStream.on('close', () => resolve(...)), line 206.
uploadClose(c) ==
    /\ Streaming(c, "upload")
    /\ \/ xfers[c].dst = "ending" /\ Alive(calls[c].id)
       \/ xfers[c].dst = "errored"
    /\ xfers' = [xfers EXCEPT ![c].dst = "closed"]
    /\ calls' = SettleCall(calls, c, "resolved", "none")
    /\ UNCHANGED <<connections, transport, connectCalls, closeListeners, timers,
                   notifications, channels, streams, kvars, rvars, subchannels, remote>>

\* ---- downloadFile, lines 218-226: readStream.pipe(writeStream)
\* The remote read stream emits data and the pipe hands it to the local write
\* stream, which writes it to the file later.
downloadData(c) ==
    /\ Streaming(c, "download")
    /\ xfers[c].src = "open" /\ xfers[c].dst = "open"
    /\ Alive(calls[c].id)
    /\ xfers[c].pos < Len(remote)
    /\ xfers' = [xfers EXCEPT ![c].pos = @ + 1, ![c].queued = Append(@, remote[xfers[c].pos + 1])]
    /\ UNCHANGED <<lvars, streams, kvars, rvars, subchannels, remote>>

\* A write of the local write stream completes.
downloadFlush(c) ==
    /\ Streaming(c, "download")
    /\ xfers[c].dst = "open"
    /\ xfers[c].queued # <<>>
    /\ xfers' = [xfers EXCEPT ![c].disk = Append(@, Head(xfers[c].queued)),
                              ![c].queued = Tail(@)]
    /\ UNCHANGED <<lvars, streams, kvars, rvars, subchannels, remote>>

\* The remote read stream emits end: readStream.on('end', () => resolve(...)),
\* line 224, runs before the pipe ends the local write stream.
downloadEnd(c) ==
    /\ Streaming(c, "download")
    /\ xfers[c].src = "open" /\ xfers[c].dst = "open"
    /\ Alive(calls[c].id)
    /\ xfers[c].pos >= Len(remote)
    /\ xfers' = [xfers EXCEPT ![c].src = "ended",
                              ![c].atSuccess = IF calls[c].state = "pending"
                                               THEN <<xfers[c].disk>> ELSE @]
    /\ calls' = SettleCall(calls, c, "resolved", "none")
    /\ UNCHANGED <<connections, transport, connectCalls, closeListeners, timers,
                   notifications, channels, streams, kvars, rvars, subchannels, remote>>

\* The remote read stream emits error: readStream.on('error', reject), line 223.
downloadSourceError(c) ==
    /\ Streaming(c, "download")
    /\ xfers[c].src = "open"
    /\ xfers' = [xfers EXCEPT ![c].src = "errored"]
    /\ calls' = SettleCall(calls, c, "rejected", "TransferError")
    /\ UNCHANGED <<connections, transport, connectCalls, closeListeners, timers,
                   notifications, channels, streams, kvars, rvars, subchannels, remote>>

\* The local write stream emits error.  downloadFile has no listener for it;
\* the pipe unpipes, and the remote read stream, with no consumer left, stops.
downloadSinkError(c) ==
    /\ Streaming(c, "download")
    /\ xfers[c].dst = "open"
    /\ xfers[c].src # "ended" \/ xfers[c].queued # <<>>
    /\ xfers' = [xfers EXCEPT ![c].dst = "errored"]
    /\ UNCHANGED <<lvars, streams, kvars, rvars, subchannels, remote>>

Ops == {"list", "upload", "download"}
SourcesOf(op) == IF op = "upload" THEN Contents(MaxFileLen) ELSE {<<>>}

SftpNext ==
    \/ sftpConnect
    \/ \E id \in Ids : transportReady(id) /\ UNCHANGED xvars
    \/ \E id \in Ids : transportError(id) /\ UNCHANGED xvars
    \/ \E id \in Ids : transportClose(id) /\ UNCHANGED xvars
    \/ \E id \in Known \cup {uuidv4}, op \in Ops : \E source \in SourcesOf(op) :
            fileOp(op, id, source)
    \/ \E c \in FileIds : sftpOpened(c)
    \/ \E c \in FileIds : sftpFailed(c)
    \/ \E c \in FileIds : readdirDone(c)
    \/ \E c \in FileIds : readdirFailed(c)
    \/ \E c \in FileIds : uploadData(c)
    \/ \E c \in FileIds : uploadEnd(c)
    \/ \E c \in FileIds : uploadSourceError(c)
    \/ \E c \in FileIds : uploadDestError(c)
    \/ \E c \in FileIds : uploadClose(c)
    \/ \E c \in FileIds : downloadData(c)
    \/ \E c \in FileIds : downloadFlush(c)
    \/ \E c \in FileIds : downloadEnd(c)
    \/ \E c \in FileIds : downloadSourceError(c)
    \/ \E c \in FileIds : downloadSinkError(c)
SftpSpec == Init /\ [][SftpNext]_vars

\* What the library and the file system do by themselves: a requested
\* sub-channel is answered, a listing is answered, bytes that can flow do flow,
\* a stream that was ended closes.  Failures and new calls are not forced.
FairSftpSpec ==
    /\ SftpSpec
    /\ \A c \in FileIds :
        /\ WF_vars(sftpOpened(c) \/ sftpFailed(c))
        /\ WF_vars(readdirDone(c) \/ readdirFailed(c))
        /\ WF_vars(uploadData(c))
        /\ WF_vars(uploadEnd(c))
        /\ WF_vars(uploadClose(c))
        /\ WF_vars(downloadData(c))
        /\ WF_vars(downloadFlush(c))
        /\ WF_vars(downloadEnd(c))

\* ---- every operation that needs a connected session, on files without content
availExecute(id) == Len(calls) < MaxFileOps /\ executeCommandCall(id) /\ UNCHANGED xvars

AvailNext ==
    \/ sftpConnect
    \/ \E id \in Ids : transportReady(id) /\ UNCHANGED xvars
    \/ \E id \in Ids : transportError(id) /\ UNCHANGED xvars
    \/ \E id \in Ids : transportClose(id) /\ UNCHANGED xvars
    \/ \E id \in Known \cup {uuidv4} : availExecute(id)
    \/ \E id \in Known \cup {uuidv4}, op \in Ops : fileOp(op, id, <<>>)
    \/ \E c \in FileIds : execFailed(c) /\ UNCHANGED xvars
    \/ \E c \in FileIds : execOpened(c) /\ UNCHANGED xvars
    \/ \E c \in FileIds : streamClose(c) /\ UNCHANGED xvars
    \/ \E c \in FileIds : sftpOpened(c)
    \/ \E c \in FileIds : sftpFailed(c)
    \/ \E c \in FileIds : readdirDone(c)
    \/ \E c \in FileIds : readdirFailed(c)
    \/ \E c \in FileIds : uploadEnd(c)
    \/ \E c \in FileIds : uploadSourceError(c)
    \/ \E c \in FileIds : uploadDestError(c)
    \/ \E c \in FileIds : uploadClose(c)
    \/ \E c \in FileIds : downloadEnd(c)
    \/ \E c \in FileIds : downloadSourceError(c)
    \/ \E c \in FileIds : downloadSinkError(c)
AvailSpec == Init /\ [][AvailNext]_vars

\* ------------------------------------------------------------- fingerprints
\* A public-key text is a sequence of symbols: words, and the separators
\* "SP" (a space), "TAB" and "NL" (a newline).
Whitespace == {"SP", "TAB", "NL"}
TextSymbols == {"ssh-rsa", "AA", "SP", "TAB", "NL"}
KeyData == {"AA", "AB"}
Algs == {"ssh-rsa", "ssh-ed25519"}
PemKinds == {"RSA", "EC"}

\* The free texts up to a length.
RECURSIVE Texts(_)
Texts(n) ==
    IF n = 0 THEN {<<>>}
    ELSE LET S == Texts(n - 1) IN S \cup {Append(t, x) : t \in S, x \in TextSymbols}

\* An OpenSSH public-key line: algorithm, separator, key data.
OpenSSH(alg, sep, data) == <<alg, sep, data>>

\* A PEM public key with a typed header (BEGIN RSA PUBLIC KEY, ...).
Pem(kind, data) ==
    <<"-----", "BEGIN", "SP", kind, "SP", "PUBLIC", "SP", "KEY", "-----", "NL",
      data, "NL",
      "-----", "END", "SP", kind, "SP", "PUBLIC", "SP", "KEY", "-----", "NL">>

\* publicKey.export({ type: 'spki', format: 'pem' }), lines 177, 187, 197.
Spki(data) ==
    <<"-----", "BEGIN", "SP", "PUBLIC", "SP", "KEY", "-----", "NL",
      data, "NL",
      "-----", "END", "SP", "PUBLIC", "SP", "KEY", "-----", "NL">>

\* String.prototype.trim(): leading and trailing whitespace removed.
RECURSIVE trimStart(_)
trimStart(t) == IF t # <<>> /\ Head(t) \in Whitespace THEN trimStart(Tail(t)) ELSE t
RECURSIVE trimEnd(_)
trimEnd(t) ==
    IF t # <<>> /\ t[Len(t)] \in Whitespace THEN trimEnd(SubSeq(t, 1, Len(t) - 1)) ELSE t
trim(t) == trimEnd(trimStart(t))

\* String.prototype.split(separator): the pieces between the occurrences of
\* the separator, empty pieces included; a text without it is one piece.
RECURSIVE split(_, _)
split(t, sep) ==
    IF \A k \in 1..Len(t) : t[k] # sep THEN <<t>>
    ELSE LET k == Min({j \in 1..Len(t) : t[j] = sep})
         IN  <<SubSeq(t, 1, k - 1)>> \o split(SubSeq(t, k + 1, Len(t)), sep)

\* Buffer.from(field, 'base64'): whitespace inside the field is skipped, the
\* words are decoded.  The decoding of a word is not followed further.
base64(field) == SelectSeq(field, LAMBDA x : x \notin Whitespace)

\* createHash('sha256').update(keyData).digest('hex'), formatted (lines
\* 113-116).  Collisions of the digest are not modelled.
sha256(bytes) == <<"SHA256">> \o bytes

Threw == <<"Invalid public key format">>

\* generateFingerprint(publicKey), lines 105-117.
generateFingerprint(publicKey) ==
    LET keyParts == split(trim(publicKey), "SP")
    IN  IF Len(keyParts) < 2 THEN Threw ELSE sha256(base64(keyParts[2]))

\* String.prototype.includes(marker).
includes(t, marker) ==
    \E k \in 0..(Len(t) - Len(marker)) : SubSeq(t, k + 1, k + Len(marker)) = marker

PemMarker(kind) == <<"BEGIN", "SP", kind, "SP", "PUBLIC", "SP", "KEY">>

\* determineKeyType(publicKey), lines 232-242.
\* Faulty variant: a text without a marker is taken for an RSA key.
determineKeyTypeLenient(publicKey) ==
    IF includes(publicKey, PemMarker("ED25519")) \/ includes(publicKey, <<"ssh-ed25519">>)
    THEN "ed25519"
    ELSE IF includes(publicKey, PemMarker("EC")) \/ includes(publicKey, <<"ecdsa-sha2-">>)
    THEN "ecdsa"
    ELSE "rsa"
determineKeyType(publicKey) ==
    IF includes(publicKey, PemMarker("RSA")) \/ includes(publicKey, <<"ssh-rsa">>)
    THEN "rsa"
    ELSE IF includes(publicKey, PemMarker("ED25519")) \/ includes(publicKey, <<"ssh-ed25519">>)
    THEN "ed25519"
    ELSE IF includes(publicKey, PemMarker("EC")) \/ includes(publicKey, <<"ecdsa-sha2-">>)
    THEN "ecdsa"
    ELSE "threw"

\* One fingerprinted text: the key data it was made from ("none" for a free
\* text), whether the generator made it, and what generateFingerprint returned.
Fingerprinted(text, data, generated) ==
    [text |-> text, data |-> data, generated |-> generated,
     fingerprint |-> generateFingerprint(text)]

\* addKey up to the fingerprint (lines 119-121).
addKey(text, data) ==
    /\ Len(fingerprints) < MaxKeys
    /\ fingerprints' = Append(fingerprints, Fingerprinted(text, data, FALSE))
    /\ UNCHANGED <<lvars, streams, svars, ksvars, rvars>>

\* generateKeyPair up to the fingerprint (lines 173-179, 184-189, 195-199).
generateKeyPair(data) ==
    /\ Len(fingerprints) < MaxKeys
    /\ fingerprints' = Append(fingerprints, Fingerprinted(Spki(data), data, TRUE))
    /\ UNCHANGED <<lvars, streams, svars, ksvars, rvars>>

FpNext ==
    \/ \E text \in Texts(MaxTextLen) : addKey(text, "none")
    \/ \E alg \in Algs, sep \in Whitespace, data \in KeyData :
            addKey(OpenSSH(alg, sep, data), data)
    \/ \E kind \in PemKinds, data \in KeyData : addKey(Pem(kind, data), data)
    \/ \E data \in KeyData : generateKeyPair(data)
FpSpec == Init /\ [][FpNext]_vars

\* ---------------------------------------------------------------- key store
\* Bytes are two bits wide here; a ^ b is the bitwise exclusive or.
Byte == 0..3
xor(a, b) == (((a % 2) + (b % 2)) % 2) + 2 * (((a \div 2) + (b \div 2)) % 2)

\* The characters of a private key text: "a", "b", and "S", a surrogate code
\* unit without its pair.  "R" is the replacement character, "n" is NUL.
PlainChars == {"a", "S"}

RECURSIVE Plains(_)
Plains(n) ==
    IF n = 0 THEN {<<>>}
    ELSE LET P == Plains(n - 1) IN P \cup {Append(x, ch) : x \in P, ch \in PlainChars}

\* Buffer.from(privateKey, 'utf8'), line 250: an unpaired surrogate is
\* encoded as the replacement character.
utf8Char(ch) ==
    IF ch = "n" THEN <<0>> ELSE IF ch = "a" THEN <<1>> ELSE IF ch = "b" THEN <<2>> ELSE <<3, 3>>
RECURSIVE toUtf8(_)
toUtf8(text) == IF text = <<>> THEN <<>> ELSE utf8Char(Head(text)) \o toUtf8(Tail(text))

\* decrypted.toString('utf8'), line 272: bytes that are no character decode to
\* the replacement character.
RECURSIVE fromUtf8(_)
fromUtf8(bytes) ==
    IF bytes = <<>> THEN <<>>
    ELSE IF Head(bytes) = 0 THEN <<"n">> \o fromUtf8(Tail(bytes))
    ELSE IF Head(bytes) = 1 THEN <<"a">> \o fromUtf8(Tail(bytes))
    ELSE IF Head(bytes) = 2 THEN <<"b">> \o fromUtf8(Tail(bytes))
    ELSE IF Len(bytes) >= 2 /\ bytes[2] = 3 THEN <<"R">> \o fromUtf8(Tail(Tail(bytes)))
    ELSE <<"R">> \o fromUtf8(Tail(bytes))

\* encrypted.toString('base64') (line 257) and Buffer.from(text, 'base64')
\* (line 265): one digit per byte here.
Digits == <<"A", "B", "C", "D">>
toBase64(bytes) == [i \in 1..Len(bytes) |-> Digits[bytes[i] + 1]]
fromBase64(text) ==
    [i \in 1..Len(text) |-> (CHOOSE d \in 1..Len(Digits) : Digits[d] = text[i]) - 1]

\* this.encryptionKey[i % this.encryptionKey.length] as an operand of ^: with
\* a key of no bytes the index is NaN, the element undefined and the operand 0.
keyByte(key, i) == IF Len(key) = 0 THEN 0 ELSE key[(i % Len(key)) + 1]

\* The loop of encryptPrivateKey and of decryptPrivateKey, lines 253-255 and
\* 268-270.
xorWithKey(bytes, key) == [i \in 1..Len(bytes) |-> xor(bytes[i], keyByte(key, i - 1))]

\* encryptPrivateKey(privateKey), lines 244-258, with the key in use
\* (encryptionKey is <<key>> here: the guard of 245 is left to the caller).
encryptPrivateKey(privateKey, key) == toBase64(xorWithKey(toUtf8(privateKey), key))

\* decryptPrivateKey(encryptedPrivateKey), lines 260-273.
\* Faulty variant: the key is not applied beyond the first byte.
decryptFirstByteOnly(encrypted, key) ==
    LET bytes == fromBase64(encrypted)
    IN  fromUtf8([i \in 1..Len(bytes) |-> IF i = 1 THEN xor(bytes[i], keyByte(key, 0)) ELSE bytes[i]])
decryptPrivateKey(encrypted, key) == fromUtf8(xorWithKey(fromBase64(encrypted), key))

\* randomBytes(32), line 73: two of the keys it may return.
randomBytes(n) == {[i \in 1..n |-> 1 + ((i + k) % 3)] : k \in 0..1}

\* ---- the key manager
\* The public key texts handed to add: an OpenSSH line, a text of two fields
\* without any algorithm marker, a marker without key data and key data alone.
PublicTexts == {OpenSSH("ssh-rsa", "SP", "AA"), <<"AA", "SP", "AB">>, <<"ssh-rsa">>, <<"AA">>}

\* keyData.privateKey: absent (<<>>) or a text (<<text>>).
PrivateTexts == {<<>>} \cup {<<x>> : x \in Plains(MaxPlainLen)}

\* options.type, and a type that is not supported.
KeyTypes == {"rsa", "ecdsa", "ed25519", "dsa"}

\* uuidv4() of key-manager.ts, line 127: a token no earlier add was given.
KeyIdsIssued == {keyCalls[c].id : c \in {k \in DOMAIN keyCalls : keyCalls[k].op \in {"add", "generate"}}} \ {0}
\* Faulty variant: a token derived from the number of key files.
keyUuidReused == Cardinality(DOMAIN keysDirectory.files) + 1
keyUuid == Cardinality(KeyIdsIssued) + 1
KeyIds == 1..MaxKeyCalls

Running == encryptionKey # <<>>
Runs == Len(SelectSeq(keyEvents, LAMBDA ev : ev.kind = "initialized"))

KeyCall(op, id, state, err, publicKey, supplied, result) ==
    [op |-> op, id |-> id, state |-> state, err |-> err, publicKey |-> publicKey,
     supplied |-> supplied, key |-> encryptionKey, result |-> result]

\* this.emit(kind, key): the payload is the record (<<>> without one).
KeyEvent(kind, id, payload) == [kind |-> kind, id |-> id, payload |-> payload]

Remove(m, k) == [x \in DOMAIN m \ {k} |-> m[x]]

\* initialize(), lines 47-63: the encryption key is read from its file (65-70)
\* or, when the read fails for whatever reason, generated and written (71-75);
\* then every key file is loaded (78-96) and 'initialized' is emitted.
initialize(readFails) ==
    /\ ~Running
    /\ Runs < MaxRuns
    /\ \A c \in DOMAIN keyCalls : keyCalls[c].state # "pending"
    /\ IF keysDirectory.encryptionKeyFile # <<>> /\ ~readFails
       THEN /\ encryptionKey' = keysDirectory.encryptionKeyFile
            /\ UNCHANGED keysDirectory
       ELSE \E k \in randomBytes(KeyLen) :
            /\ encryptionKey' = <<k>>
            /\ keysDirectory' = [keysDirectory EXCEPT !.encryptionKeyFile = <<k>>]
    /\ storedKeys' = keysDirectory.files
    /\ keyEvents' = Append(keyEvents, KeyEvent("initialized", 0, <<>>))
    /\ UNCHANGED <<lvars, streams, svars, fingerprints, rvars, keyCalls>>

\* The application quits (part_003:187-191 calls cleanup, lines 275-278) and
\* its memory is gone; the files stay.
quit ==
    /\ Running
    /\ Runs < MaxRuns
    /\ \A c \in DOMAIN keyCalls : keyCalls[c].state # "pending"
    /\ storedKeys' = <<>>
    /\ encryptionKey' = <<>>
    /\ UNCHANGED <<lvars, streams, svars, fingerprints, rvars, keysDirectory, keyCalls, keyEvents>>

\* The record addKey builds, lines 126-139.
newKey(id, publicKey, privateKey) ==
    [id |-> id,
     type |-> determineKeyType(publicKey),
     publicKey |-> publicKey,
     fingerprint |-> generateFingerprint(publicKey),
     encrypted |-> privateKey # <<>> /\ privateKey # << <<>> >>,
     privateKey |-> IF privateKey # <<>> /\ privateKey # << <<>> >>
                    THEN <<encryptPrivateKey(privateKey[1], encryptionKey[1])>>
                    ELSE <<>>]

\* addKey(keyData), lines 119-142, up to the call of saveKey: a text without
\* two fields or without a marker fails the call; otherwise the record is put
\* into the map and its file is being written.
addKeyData(op, publicKey, privateKey) ==
    /\ IF generateFingerprint(publicKey) = Threw
       THEN /\ keyCalls' = Append(keyCalls,
                    KeyCall(op, 0, "rejected", "Invalid public key format", publicKey, <<>>, <<>>))
            /\ UNCHANGED storedKeys
       ELSE IF determineKeyType(publicKey) = "threw"
       THEN /\ keyCalls' = Append(keyCalls,
                    KeyCall(op, 0, "rejected", "Unable to determine key type", publicKey, <<>>, <<>>))
            /\ UNCHANGED storedKeys
       ELSE /\ keyCalls' = Append(keyCalls,
                    KeyCall(op, keyUuid, "pending", "none", publicKey, privateKey, <<>>))
            /\ storedKeys' = MapSet(storedKeys, keyUuid, newKey(keyUuid, publicKey, privateKey))
    /\ UNCHANGED <<lvars, streams, svars, fingerprints, rvars, keysDirectory, encryptionKey, keyEvents>>

keysAdd(publicKey, privateKey) ==
    /\ Running
    /\ Len(keyCalls) < MaxKeyCalls
    /\ addKeyData("add", publicKey, privateKey)

\* generateKeyPair(options), lines 173-209: the pair is exported as PEM, the
\* fingerprint is computed and the pair is handed to addKey.
keysGenerate(type, data) ==
    /\ Running
    /\ Len(keyCalls) < MaxKeyCalls
    /\ IF type \in {"rsa", "ecdsa", "ed25519"}
       THEN addKeyData("generate", Spki(data), << <<"a", "b">> >>)
       ELSE /\ keyCalls' = Append(keyCalls,
                    KeyCall("generate", 0, "rejected", "Unsupported key type", <<>>, <<>>, <<>>))
            /\ UNCHANGED <<lvars, streams, svars, fingerprints, rvars, storedKeys, keysDirectory,
                           encryptionKey, keyEvents>>

PendingKeyCall(c, ops) ==
    /\ c \in DOMAIN keyCalls
    /\ keyCalls[c].op \in ops
    /\ keyCalls[c].state = "pending"

\* saveKey's write ends (lines 98-103, 142-145): on success 'key:added' is
\* emitted and the record returned; on failure the call fails and the record
\* stays in the map.
keysAddSaved(c, ok) ==
    /\ PendingKeyCall(c, {"add", "generate"})
    /\ LET id == keyCalls[c].id IN
       IF ok
       THEN /\ keysDirectory' = [keysDirectory EXCEPT !.files = MapSet(@, id, storedKeys[id])]
            /\ keyEvents' = Append(keyEvents, KeyEvent("key:added", id, <<storedKeys[id]>>))
            /\ keyCalls' = [keyCalls EXCEPT ![c].state = "resolved",
                                           ![c].result = <<storedKeys[id]>>]
       ELSE /\ keyCalls' = [keyCalls EXCEPT ![c].state = "rejected", ![c].err = "WriteFailed"]
            /\ UNCHANGED <<keysDirectory, keyEvents>>
    /\ UNCHANGED <<lvars, streams, svars, fingerprints, rvars, storedKeys, encryptionKey>>

\* removeKey(keyId), lines 152-161, up to fs.unlink.
keysRemove(id) ==
    /\ Running
    /\ Len(keyCalls) < MaxKeyCalls
    /\ keyCalls' = Append(keyCalls,
            IF id \in DOMAIN storedKeys
            THEN KeyCall("remove", id, "pending", "none", <<>>, <<>>, <<>>)
            ELSE KeyCall("remove", id, "rejected", "Key not found", <<>>, <<>>, <<>>))
    /\ UNCHANGED <<lvars, streams, svars, fingerprints, rvars, storedKeys, keysDirectory,
                   encryptionKey, keyEvents>>

\* fs.unlink ends (lines 161-166): without the file it fails and so does the
\* call; with it the file is gone, the record deleted and 'key:removed' emitted.
\* Faulty variant: a missing file is not taken for a failure.
keysRemoveUnlinkedAnyway(c) ==
    /\ PendingKeyCall(c, {"remove"})
    /\ LET id == keyCalls[c].id IN
        /\ keysDirectory' = [keysDirectory EXCEPT !.files = Remove(@, id)]
        /\ storedKeys' = Remove(storedKeys, id)
        /\ keyEvents' = Append(keyEvents, KeyEvent("key:removed", id,
                IF id \in DOMAIN storedKeys THEN <<storedKeys[id]>> ELSE <<>>))
        /\ keyCalls' = [keyCalls EXCEPT ![c].state = "resolved"]
    /\ UNCHANGED <<lvars, streams, svars, fingerprints, rvars, encryptionKey>>
keysRemoveUnlinked(c) ==
    /\ PendingKeyCall(c, {"remove"})
    /\ LET id == keyCalls[c].id IN
       IF id \in DOMAIN keysDirectory.files
       THEN /\ keysDirectory' = [keysDirectory EXCEPT !.files = Remove(@, id)]
            /\ storedKeys' = Remove(storedKeys, id)
            /\ keyEvents' = Append(keyEvents, KeyEvent("key:removed", id, <<storedKeys[id]>>))
            /\ keyCalls' = [keyCalls EXCEPT ![c].state = "resolved"]
       ELSE /\ keyCalls' = [keyCalls EXCEPT ![c].state = "rejected", ![c].err = "ENOENT"]
            /\ UNCHANGED <<storedKeys, keysDirectory, keyEvents>>
    /\ UNCHANGED <<lvars, streams, svars, fingerprints, rvars, encryptionKey>>

\* listKeys(), lines 211-216: a copy of every record with privateKey undefined.
\* Faulty variant: the records themselves.
listKeysAsStored == storedKeys
listKeys == [id \in DOMAIN storedKeys |-> [storedKeys[id] EXCEPT !.privateKey = <<>>]]

keysList ==
    /\ Running
    /\ Len(keyCalls) < MaxKeyCalls
    /\ keyCalls' = Append(keyCalls, KeyCall("list", 0, "resolved", "none", <<>>, <<>>, <<listKeys>>))
    /\ UNCHANGED <<lvars, streams, svars, fingerprints, rvars, storedKeys, keysDirectory,
                   encryptionKey, keyEvents>>

\* The value getPrivateKey(keyId) returns, lines 218-230: null (<<>>) without
\* the record or without its private half, else the decrypted text.
\* Faulty variant: the private half of any record that has one.
privateKeyOfAny(id) ==
    LET have == {k \in DOMAIN storedKeys : storedKeys[k].privateKey # <<>>}
    IN  IF have = {} THEN <<>>
        ELSE <<decryptPrivateKey(storedKeys[Min(have)].privateKey[1], encryptionKey[1])>>
privateKeyOf(id) ==
    IF id \notin DOMAIN storedKeys \/ storedKeys[id].privateKey \in {<<>>, << <<>> >>}
    THEN <<>>
    ELSE <<decryptPrivateKey(storedKeys[id].privateKey[1], encryptionKey[1])>>

getPrivateKey(id) ==
    /\ Running
    /\ Len(keyCalls) < MaxKeyCalls
    /\ keyCalls' = Append(keyCalls,
            KeyCall("getPrivateKey", id, "resolved", "none", <<>>, <<>>, <<privateKeyOf(id)>>))
    /\ UNCHANGED <<lvars, streams, svars, fingerprints, rvars, storedKeys, keysDirectory,
                   encryptionKey, keyEvents>>

\* The directory at the first start: no key file, a key file without content,
\* or a key file written by an earlier installation.
StartDirectories ==
    {[encryptionKeyFile |-> f, files |-> <<>>] :
        f \in {<<>>, << <<>> >>} \cup {<<k>> : k \in randomBytes(KeyLen)}}

KeyInit ==
    /\ SessionInit
    /\ KeyManagerInit
    /\ keysDirectory \in StartDirectories

KeyNext ==
    \/ \E readFails \in BOOLEAN : initialize(readFails)
    \/ \E publicKey \in PublicTexts, privateKey \in PrivateTexts : keysAdd(publicKey, privateKey)
    \/ \E type \in KeyTypes, data \in KeyData : keysGenerate(type, data)
    \/ \E c \in KeyIds, ok \in BOOLEAN : keysAddSaved(c, ok)
    \/ \E id \in KeyIds : keysRemove(id)
    \/ \E c \in KeyIds : keysRemoveUnlinked(c)
    \/ keysList
    \/ \E id \in KeyIds : getPrivateKey(id)
KeySpec == KeyInit /\ [][KeyNext]_vars

\* A directory that an earlier run left with one key record, encrypted under
\* the key of the key file.
PersistedKey(k) ==
    [id |-> 1,
     type |-> determineKeyType(OpenSSH("ssh-rsa", "SP", "AA")),
     publicKey |-> OpenSSH("ssh-rsa", "SP", "AA"),
     fingerprint |-> generateFingerprint(OpenSSH("ssh-rsa", "SP", "AA")),
     encrypted |-> TRUE,
     privateKey |-> <<encryptPrivateKey(<<"a">>, k)>>]
UsedDirectories ==
    {[encryptionKeyFile |-> <<k>>, files |-> <<PersistedKey(k)>>] : k \in randomBytes(KeyLen)}

\* The removal of keys that an earlier run stored.
RemoveInit ==
    /\ SessionInit
    /\ KeyManagerInit
    /\ keysDirectory \in UsedDirectories
RemoveNext ==
    \/ \E readFails \in BOOLEAN : initialize(readFails)
    \/ \E id \in KeyIds : keysRemove(id)
    \/ \E c \in KeyIds : keysRemoveUnlinked(c)
    \/ keysList
    \/ \E id \in KeyIds : getPrivateKey(id)
RemoveSpec == RemoveInit /\ [][RemoveNext]_vars

\* The key manager over several runs of the application.
RestartNext ==
    \/ KeyNext
    \/ quit
RestartSpec == KeyInit /\ [][RestartNext]_vars

\* ------------------------------------------------ operations on a session
NeedsSession == {"execute", "list", "upload", "download"}

\* C11: an execute, list, upload or download call issued while its session is
\* not connected (unknown, connecting, error, disconnected) is rejected at
\* once and stays rejected; a call that is accepted, and so every call that
\* later succeeds, was issued on a session whose transport had reported ready.
C11_IssuedAfterReady ==
    [][\A c \in DOMAIN calls' :
        calls'[c].op \in NeedsSession =>
            IF c \notin DOMAIN calls
            THEN LET id == calls'[c].id IN
                 /\ StatusOf(id) # "connected" =>
                        calls'[c].state = "rejected" /\ calls'[c].err = "SessionUnavailable"
                 /\ calls'[c].state # "rejected" =>
                        id \in Known /\ transport[id].ready /\ StatusOf(id) = "connected"
            ELSE /\ calls[c].state = "rejected" => calls'[c].state = "rejected"
                 /\ calls'[c].state = "resolved" =>
                        calls[c].state \in {"pending", "resolved"}
                        /\ transport[calls[c].id].ready]_vars

\* An upload that succeeded, and a file operation refused on the same session
\* once it had left connected.
C11_Witness ==
    \E c, k \in DOMAIN calls :
        /\ calls[c].op = "upload" /\ calls[c].state = "resolved"
        /\ calls[k].op \in {"list", "download"}
        /\ calls[k].id = calls[c].id
        /\ calls[k].state = "rejected" /\ calls[k].err = "SessionUnavailable"
        /\ StatusOf(calls[k].id) \in {"error", "disconnected"}

\* ------------------------------------------------------ commands in flight
\* The text of a sequence of chunks: each chunk decoded, in arrival order.
RECURSIVE Text(_)
Text(chunks) == IF chunks = <<>> THEN <<>> ELSE toString(Head(chunks)) \o Text(Tail(chunks))

Resolved(c) == calls[c].op = "execute" /\ calls[c].state = "resolved"

\* C12: with any number of execute calls in flight on one session, what a call
\* has accumulated is at every moment exactly what its own channel delivered,
\* and the result it returns holds the standard output, the standard error and
\* the exit code of its own channel.
C12_OwnChannelOnly ==
    \A c \in DOMAIN streams :
        /\ streams[c].stdout = Text(streams[c].outChunks)
        /\ streams[c].stderr = Text(streams[c].errChunks)
        /\ Resolved(c) =>
            /\ streams[c].result # <<>>
            /\ streams[c].result[1].stdout = Text(streams[c].outChunks)
            /\ streams[c].result[1].stderr = Text(streams[c].errChunks)
            /\ streams[c].result[1].exitCode \in {streams[c].code, 0}

\* Two calls whose channels are open at once and have delivered different
\* output, one of them on standard error too.
C12_Witness ==
    /\ {1, 2} \subseteq DOMAIN channels
    /\ channels[1] = "open" /\ channels[2] = "open"
    /\ streams[1].outChunks # <<>>
    /\ streams[2].outChunks # <<>>
    /\ streams[1].outChunks # streams[2].outChunks

C14_FailsWithoutResult ==
    \A c \in DOMAIN calls :
        /\ (c \in DOMAIN channels /\ channels[c] = "failed") =>
                calls[c].state = "rejected" /\ calls[c].err = "TransportError"
        /\ (c \in DOMAIN streams /\ streams[c].errorInFlight) =>
                calls[c].state # "resolved" /\ streams[c].result = <<>>

\* ------------------------------------------------------------ file transfer
IsOp(c, op) == c \in DOMAIN xfers /\ xfers[c].op = op

\* C15: a session opens at most one file-transfer sub-channel, and every file
\* operation on it, those issued before the first one was created included,
\* uses that handle.
C15_OneSubchannel ==
    /\ \A id \in Ids : subchannels[id].opened <= 1
    /\ \A c \in DOMAIN xfers : xfers[c].handle \in {0, 1}

\* A stream error that reaches an upload or a download that has not returned.
ErrorInFlight(c, op) ==
    /\ IsOp(c, op)
    /\ calls[c].state = "pending"
    /\ xfers[c].src = "errored" \/ xfers[c].dst = "errored"

\* C16: an upload reports success only once its remote destination stream has
\* closed and never after an error of one of its two streams; an upload one of
\* whose streams fails while it is in flight fails.
C16_UploadOutcome ==
    /\ [](\A c \in DOMAIN xfers :
            (IsOp(c, "upload") /\ calls[c].state = "resolved") =>
                xfers[c].dst = "closed" /\ xfers[c].src # "errored")
    /\ \A c \in FileIds :
        ErrorInFlight(c, "upload") ~> (c \in DOMAIN calls /\ calls[c].state = "rejected")

\* C17: a download reports success only on the end of its remote source stream
\* and never after an error of one of its two streams; a download one of whose
\* streams fails while it is in flight fails.
C17_DownloadOutcome ==
    /\ [](\A c \in DOMAIN xfers :
            (IsOp(c, "download") /\ calls[c].state = "resolved") =>
                xfers[c].src = "ended" /\ xfers[c].atSuccess # <<>>)
    /\ \A c \in FileIds :
        ErrorInFlight(c, "download") ~> (c \in DOMAIN calls /\ calls[c].state = "rejected")

\* C18: when an upload has reported success and a download of the same remote
\* file, issued after that, reports success, the local file the download wrote
\* holds at that moment exactly the bytes of the file the upload read.
C18_RoundTrip ==
    \A u, d \in DOMAIN xfers :
        ( /\ IsOp(u, "upload") /\ IsOp(d, "download")
          /\ calls[u].id = calls[d].id
          /\ u \in xfers[d].prior
          /\ \A k \in DOMAIN xfers : IsOp(k, "upload") => k = u
          /\ calls[d].state = "resolved" )
        => xfers[d].atSuccess = <<xfers[u].source>>

\* ------------------------------------------------------------- fingerprints
\* A key the store takes (the fingerprint and the key type are both found),
\* or a key the generator made.
Accepted(k) ==
    /\ k.data # "none"
    /\ k.fingerprint # Threw
    /\ k.generated \/ determineKeyType(k.text) # "threw"

\* C19: the same text always gets the same fingerprint, and two keys that the
\* store accepts or the generator made, and whose key data differ, get
\* different fingerprints.
C19_SeparatesKeys ==
    \A i, j \in DOMAIN fingerprints :
        LET a == fingerprints[i]
            b == fingerprints[j]
        IN  /\ a.text = b.text => a.fingerprint = b.fingerprint
            /\ (Accepted(a) /\ Accepted(b) /\ a.data # b.data) =>
                    a.fingerprint # b.fingerprint

\* The fields of a text that any run of whitespace separates.
RECURSIVE WsFields(_)
WsFields(t) ==
    LET rest == trimStart(t)
        stops == {j \in 1..Len(rest) : rest[j] \in Whitespace}
        k == IF stops = {} THEN Len(rest) + 1 ELSE Min(stops)
    IN  IF rest = <<>> THEN <<>>
        ELSE <<SubSeq(rest, 1, k - 1)>> \o WsFields(SubSeq(rest, k, Len(rest)))

\* C20: the fingerprint fails with the format error exactly for the texts with
\* fewer than two whitespace-separated fields, and for every other text it is
\* the digest of the decoded second field.
C20_FormatErrorExactly ==
    \A i \in DOMAIN fingerprints :
        LET fields == WsFields(fingerprints[i].text)
        IN  /\ fingerprints[i].fingerprint = Threw <=> Len(fields) < 2
            /\ Len(fields) >= 2 =>
                    fingerprints[i].fingerprint = sha256(base64(fields[2]))

\* ---------------------------------------------- the key store: claims

IoFailed(c) == keyCalls[c].err \in {"WriteFailed", "ENOENT"}

\* C21: a generate call for a supported algorithm succeeds, and the list then
\* holds a record with the returned public key, the algorithm's type and the
\* returned fingerprint, which is the fingerprint recomputed from the key.
C21_GenerateListed ==
    \A c \in DOMAIN keyCalls :
        (/\ c = Len(keyCalls)
         /\ keyCalls[c].op = "generate"
         /\ keyCalls[c].state # "pending"
         /\ keyCalls[c].err # "Unsupported key type"
         /\ ~IoFailed(c))
        => /\ keyCalls[c].state = "resolved"
           /\ keyCalls[c].id \in DOMAIN listKeys
           /\ LET listed == listKeys[keyCalls[c].id]
                  returned == keyCalls[c].result[1]
              IN  /\ listed.publicKey = returned.publicKey
                  /\ listed.fingerprint = returned.fingerprint
                  /\ listed.fingerprint = generateFingerprint(listed.publicKey)

\* The step is a call of the operation op.
Called(op) ==
    /\ Len(keyCalls') = Len(keyCalls) + 1
    /\ keyCalls'[Len(keyCalls')].op = op
Answer == keyCalls'[Len(keyCalls')]

\* The add or generate call that created the record id, if any.
AddsOf(id) == {a \in DOMAIN keyCalls : keyCalls[a].op \in {"add", "generate"} /\ keyCalls[a].id = id}

\* A text no character of which is an unpaired surrogate.
WellFormed(x) == \A i \in DOMAIN x : x[i] # "S"

\* C22 as stated: getPrivateKey returns exactly the private key text that
\* was supplied when the record was added, whatever the text.
C22_RoundTripAnyText ==
    [][Called("getPrivateKey") =>
        \A a \in AddsOf(Answer.id) :
            (Answer.id \in DOMAIN storedKeys /\ keyCalls[a].supplied # <<>>)
            => Answer.result = <<keyCalls[a].supplied>>]_vars

\* C22, amended: during the run in which a record was added with a private
\* key text that is not empty and has no unpaired surrogate, getPrivateKey
\* returns exactly that text, whatever its length relative to the key's.
C22_RoundTripText ==
    [][Called("getPrivateKey") =>
        \A a \in AddsOf(Answer.id) :
            (/\ Answer.id \in DOMAIN storedKeys
             /\ keyCalls[a].supplied # <<>>
             /\ keyCalls[a].supplied[1] # <<>>
             /\ WellFormed(keyCalls[a].supplied[1]))
            => Answer.result = <<keyCalls[a].supplied>>]_vars

\* A text longer than the key came back unchanged.
C22_Witness ==
    \E g \in DOMAIN keyCalls : \E a \in AddsOf(keyCalls[g].id) :
        /\ keyCalls[g].op = "getPrivateKey"
        /\ keyCalls[a].supplied # <<>>
        /\ keyCalls[g].result = <<keyCalls[a].supplied>>
        /\ Len(encryptionKey[1]) > 0
        /\ Len(toUtf8(keyCalls[a].supplied[1])) > Len(encryptionKey[1])

\* C23: no record that list() returns has a private key, encrypted or not,
\* also when the stored record has one; list() returns one record for each
\* stored record and leaves the store and the files as they were.
C23_ListWithoutPrivateKey ==
    [][Called("list") =>
        /\ DOMAIN Answer.result[1] = DOMAIN storedKeys
        /\ \A id \in DOMAIN Answer.result[1] :
            /\ Answer.result[1][id].privateKey = <<>>
            /\ Answer.result[1][id].publicKey = storedKeys[id].publicKey
        /\ storedKeys' = storedKeys
        /\ keysDirectory' = keysDirectory]_vars

\* A list taken after an add with a private key had succeeded.
C23_Witness ==
    \E c \in DOMAIN keyCalls : \E id \in DOMAIN storedKeys : \E a \in AddsOf(id) :
        /\ keyCalls[c].op = "list"
        /\ a < c
        /\ keyCalls[a].state = "resolved"
        /\ id \in DOMAIN keyCalls[c].result[1]
        /\ storedKeys[id].privateKey # <<>>

\* C24: the private key field of every stored and of every persisted record
\* is the encrypted form of the text supplied, and the bytes written are never
\* those of the text itself, whatever key was loaded at startup.
C24_NeverPlaintext ==
    \A a \in DOMAIN keyCalls :
        (/\ keyCalls[a].op = "add"
         /\ keyCalls[a].id # 0
         /\ keyCalls[a].supplied \notin {<<>>, << <<>> >>})
        => LET x == keyCalls[a].supplied[1]
               id == keyCalls[a].id
               Encrypted(record) ==
                   /\ record.privateKey = <<encryptPrivateKey(x, keyCalls[a].key[1])>>
                   /\ fromBase64(record.privateKey[1]) # toUtf8(x)
           IN  /\ id \in DOMAIN storedKeys => Encrypted(storedKeys[id])
               /\ id \in DOMAIN keysDirectory.files => Encrypted(keysDirectory.files[id])

Emitted(events, kind, id) == Len(SelectSeq(events, LAMBDA ev : ev.kind = kind /\ ev.id = id))
Added(id) == Emitted(keyEvents, "key:added", id)
Removed(id) == Emitted(keyEvents, "key:removed", id)

\* The add call c has just succeeded.
AddSucceeds(c) ==
    /\ PendingKeyCall(c, {"add"})
    /\ keyCalls'[c].state = "resolved"

\* C25: an add that passes the checks puts exactly one record into the
\* store, under an identifier neither the store nor the directory has, with
\* the fingerprint of its public key, and leaves the other records as they
\* are; when it succeeds exactly that record is written to the directory,
\* exactly one key:added is emitted for it, the other records and files are
\* unchanged and the list contains the identifier.
C25_AddStoresOne ==
    [][/\ (Called("add") /\ Answer.state = "pending") =>
            /\ Answer.id \notin DOMAIN storedKeys \cup DOMAIN keysDirectory.files
            /\ storedKeys' = MapSet(storedKeys, Answer.id, storedKeys'[Answer.id])
            /\ storedKeys'[Answer.id].id = Answer.id
            /\ storedKeys'[Answer.id].publicKey = Answer.publicKey
            /\ storedKeys'[Answer.id].fingerprint = generateFingerprint(Answer.publicKey)
            /\ UNCHANGED <<keysDirectory, keyEvents>>
       /\ \A c \in DOMAIN keyCalls : AddSucceeds(c) =>
            LET id == keyCalls[c].id IN
            /\ id \in DOMAIN storedKeys
            /\ keysDirectory' =
                    [keysDirectory EXCEPT !.files = MapSet(@, id, storedKeys[id])]
            /\ keyCalls'[c].result = <<storedKeys[id]>>
            /\ keyEvents' = Append(keyEvents, KeyEvent("key:added", id, <<storedKeys[id]>>))
            /\ Added(id) = 0
            /\ storedKeys' = storedKeys
            /\ id \in DOMAIN listKeys'
       /\ \A c \in DOMAIN keyCalls' :
            (keyCalls'[c].op = "add" /\ keyCalls'[c].state # "resolved" /\ keyCalls'[c].id # 0)
            => Emitted(keyEvents', "key:added", keyCalls'[c].id) = 0]_vars

\* A second add has succeeded beside the record of the first.
C25_Witness ==
    \E c, b \in DOMAIN keyCalls :
        /\ b < c
        /\ keyCalls[b].op = "add" /\ keyCalls[b].state = "resolved"
        /\ keyCalls[c].op = "add" /\ keyCalls[c].state = "resolved"
        /\ {keyCalls[b].id, keyCalls[c].id} \subseteq DOMAIN keysDirectory.files
        /\ keyCalls[b].id # keyCalls[c].id
        /\ Added(keyCalls[c].id) = 1

\* The texts by which an algorithm is recognised.
Markers ==
    {PemMarker("RSA"), PemMarker("ED25519"), PemMarker("EC"),
     <<"ssh-rsa">>, <<"ssh-ed25519">>, <<"ecdsa-sha2-">>}
NoMarker(publicKey) == \A marker \in Markers : ~includes(publicKey, marker)

\* C26: an add whose public key text has none of the markers fails with one
\* of the two key format errors, and the store, the directory and the events
\* are as they were.
C26_NoMarkerRejected ==
    [][(Called("add") /\ NoMarker(Answer.publicKey)) =>
            /\ Answer.state = "rejected"
            /\ Answer.err \in {"Invalid public key format", "Unable to determine key type"}
            /\ UNCHANGED <<storedKeys, keysDirectory, keyEvents>>]_vars

\* An add has failed for a text with two fields and no marker.
C26_Witness ==
    \E c \in DOMAIN keyCalls :
        /\ keyCalls[c].op = "add"
        /\ keyCalls[c].state = "rejected"
        /\ NoMarker(keyCalls[c].publicKey)
        /\ generateFingerprint(keyCalls[c].publicKey) # Threw

\* C27: a remove for an identifier the store does not have fails with key not
\* found and changes nothing; a remove for an identifier the store has ends
\* with the file deleted, the record out of the store, of the list and of
\* getPrivateKey, one key:removed emitted and the other records unchanged.
C27_RemoveOutcome ==
    [][/\ (Called("remove") /\ Answer.id \notin DOMAIN storedKeys) =>
            /\ Answer.state = "rejected"
            /\ Answer.err = "Key not found"
            /\ UNCHANGED <<storedKeys, keysDirectory, keyEvents>>
       /\ (Called("remove") /\ Answer.id \in DOMAIN storedKeys) =>
            Answer.state = "pending"
       /\ \A c \in DOMAIN keyCalls :
            (PendingKeyCall(c, {"remove"}) /\ keyCalls'[c].state # "pending") =>
                LET id == keyCalls[c].id IN
                /\ keyCalls'[c].state = "resolved"
                /\ storedKeys' = Remove(storedKeys, id)
                /\ keysDirectory' = [keysDirectory EXCEPT !.files = Remove(@, id)]
                /\ id \notin DOMAIN listKeys'
                /\ privateKeyOf(id)' = <<>>
                /\ keyEvents' = Append(keyEvents, KeyEvent("key:removed", id, <<storedKeys[id]>>))]_vars

\* The private key text given when the record id was added: <<>> without one.
SuppliedFor(id) ==
    IF AddsOf(id) = {} THEN <<>> ELSE keyCalls[CHOOSE a \in AddsOf(id) : TRUE].supplied

\* C28: getPrivateKey(id) returns nothing when the store has no record id or
\* the record was added without a private key, and otherwise the text that
\* was supplied for that very record (as its UTF-8 encoding reads back); the
\* store, the directory and the events are left as they were.
C28_OwnPrivateKeyOnly ==
    [][Called("getPrivateKey") =>
        /\ Answer.result[1] =
                IF Answer.id \notin DOMAIN storedKeys
                        \/ SuppliedFor(Answer.id) \in {<<>>, << <<>> >>}
                THEN <<>>
                ELSE <<fromUtf8(toUtf8(SuppliedFor(Answer.id)[1]))>>
        /\ UNCHANGED <<storedKeys, keysDirectory, keyEvents>>]_vars

\* Asked for an identifier the store does not have while another record has
\* a private key, getPrivateKey returned nothing.
C28_Witness ==
    \E g \in DOMAIN keyCalls : \E other \in DOMAIN storedKeys :
        /\ keyCalls[g].op = "getPrivateKey"
        /\ keyCalls[g].id # other
        /\ storedKeys[other].privateKey # <<>>
        /\ \E a \in AddsOf(other) : a < g
        /\ keyCalls[g].result = << <<>> >>

\* C29: once the directory has an encryption key file its content is never
\* replaced, and every initialization that follows loads exactly that
\* content, so that what an earlier run encrypted can be decrypted.
C29_KeyGeneratedOnce ==
    [][keysDirectory.encryptionKeyFile # <<>> =>
        /\ keysDirectory'.encryptionKeyFile = keysDirectory.encryptionKeyFile
        /\ encryptionKey' \in {<<>>, keysDirectory.encryptionKeyFile}
        /\ \A id \in DOMAIN storedKeys' \cap DOMAIN keysDirectory.files :
            \A a \in AddsOf(id) :
                (encryptionKey' # <<>> /\ keyCalls[a].supplied \notin {<<>>, << <<>> >>})
                => xorWithKey(fromBase64(storedKeys'[id].privateKey[1]), encryptionKey'[1])
                        = toUtf8(keyCalls[a].supplied[1])]_vars

\* ------------------------------------------------ no reconnect by itself

\* C30: a session that is disconnected or in error stays in that status, gets
\* no new transport and no reconnecting or reconnect-failed notification in
\* any step (a connect call makes a new session and leaves this one alone).
C30_NoReconnectByItself ==
    [][\A id \in Ids : (id \in Known /\ connections[id].status \in {"error", "disconnected"}) =>
          /\ connections'[id].status = connections[id].status
          /\ transport'[id] = newClient => transport[id] = newClient
          /\ transport'[id].ready = transport[id].ready
          /\ \A k \in DOMAIN notifications'[id] :
                notifications'[id][k] \notin {"reconnecting", "reconnect-failed"}]_vars

\* ------------------------------------------------ the reconnect helper

\* private maxReconnectAttempts = 3 (line 38).
maxReconnectAttempts == 3

\* this.reconnectAttempts.get(connectionId) || 0, line 269.
attemptsOf(id) == IF id \in DOMAIN reconnectAttempts THEN reconnectAttempts[id] ELSE 0

\* Math.pow(2, attempts) * 1000, line 278, in milliseconds.
\* Faulty variant: a delay that grows by one second with each attempt.
backoffLinear(attempts) == (attempts + 1) * 1000
backoff(attempts) == (2 ^ attempts) * 1000

\* The invocations of the helper for id so far.
Invoked(id) ==
    attemptsOf(id) + Len(SelectSeq(reconnectEvents[id], LAMBDA ev : ev.kind = "reconnect-failed"))

\* attemptReconnect(connectionId), lines 268-278, up to the await: at the
\* maximum it emits 'connection:reconnect-failed' and returns; below it the
\* attempt is counted and the backoff timer is set.
attemptReconnect(id) ==
    /\ Invoked(id) < MaxReconnects
    /\ LET attempts == attemptsOf(id) IN
       IF attempts >= maxReconnectAttempts
       THEN /\ reconnectEvents' = [reconnectEvents EXCEPT ![id] =
                    Append(@, [kind |-> "reconnect-failed", attempt |-> attempts, waited |-> 0])]
            /\ UNCHANGED <<reconnectAttempts, reconnectWaits>>
       ELSE /\ reconnectAttempts' = MapSet(reconnectAttempts, id, attempts + 1)
            /\ reconnectWaits' = [reconnectWaits EXCEPT ![id] =
                    @ \cup {[attempts |-> attempts, delay |-> backoff(attempts)]}]
            /\ UNCHANGED reconnectEvents
    /\ UNCHANGED <<lvars, streams, svars, kvars>>

\* The backoff timer of an attempt fires (lines 278-284); the timers of one
\* identifier fire in the order they were set, each being longer than the one
\* before.  'connection:reconnecting' is emitted if the session is registered.
reconnectTimerFire(id) ==
    /\ reconnectWaits[id] # {}
    /\ LET w == CHOOSE x \in reconnectWaits[id] :
                    \A y \in reconnectWaits[id] : x.attempts <= y.attempts
       IN  /\ reconnectWaits' = [reconnectWaits EXCEPT ![id] = @ \ {w}]
           /\ reconnectEvents' =
                IF id \in Known
                THEN [reconnectEvents EXCEPT ![id] =
                        Append(@, [kind |-> "reconnecting", attempt |-> w.attempts + 1,
                                   waited |-> w.delay])]
                ELSE reconnectEvents
    /\ UNCHANGED <<lvars, streams, svars, kvars, reconnectAttempts>>

ReconnectNext ==
    \/ connectFair /\ UNCHANGED xvars
    \/ \E id \in Known \cup {NoSession} : attemptReconnect(id)
    \/ \E id \in Known \cup {NoSession} : reconnectTimerFire(id)
ReconnectSpec == Init /\ [][ReconnectNext]_vars

Reconnecting(events) == SelectSeq(events, LAMBDA ev : ev.kind = "reconnecting")

\* C31: for every session, the k-th invocation of the reconnect helper
\* (k = 0, 1, 2) counts the attempt and sets a wait of 2^k seconds, after
\* which reconnecting is emitted with attempt number k + 1; no more than the
\* maximum of reconnecting notifications are emitted; an invocation at the
\* maximum emits reconnect-failed without a wait and leaves the count alone.
C31_BackoffAndMaximum ==
    [][\A id \in Known :
        LET k == attemptsOf(id)
            rs == Reconnecting(reconnectEvents'[id])
        IN
        /\ Len(rs) <= maxReconnectAttempts
        /\ \A j \in 1..Len(rs) : rs[j].attempt = j /\ rs[j].waited = (2 ^ (j - 1)) * 1000
        /\ attemptsOf(id)' = k + 1 =>
                /\ k < maxReconnectAttempts
                /\ reconnectWaits'[id] = reconnectWaits[id] \cup {[attempts |-> k, delay |-> (2 ^ k) * 1000]}
                /\ reconnectEvents'[id] = reconnectEvents[id]
        /\ attemptsOf(id)' \in {k, k + 1}
        /\ Len(reconnectEvents'[id]) > Len(reconnectEvents[id]) =>
                LET ev == reconnectEvents'[id][Len(reconnectEvents'[id])] IN
                IF ev.kind = "reconnect-failed"
                THEN /\ k = maxReconnectAttempts
                     /\ ev.waited = 0
                     /\ reconnectWaits'[id] = reconnectWaits[id]
                     /\ attemptsOf(id)' = k
                ELSE /\ ev.kind = "reconnecting"
                     /\ [attempts |-> ev.attempt - 1, delay |-> ev.waited] \in reconnectWaits[id]
                     /\ attemptsOf(id)' = k]_vars

\* Three reconnecting notifications and then reconnect-failed for one session.
C31_Witness ==
    \E id \in Known :
        /\ Len(Reconnecting(reconnectEvents[id])) = maxReconnectAttempts
        /\ Len(reconnectEvents[id]) > maxReconnectAttempts
        /\ reconnectEvents[id][Len(reconnectEvents[id])].kind = "reconnect-failed"

\* ------------------------------------------------ the session records

\* C32: a session record has its transport handle exactly when its status is
\* connecting or connected; a session in error or disconnected has none.
C32_HandleIffLive ==
    \A id \in Known :
        connections[id].client <=> connections[id].status \in {"connecting", "connected"}

\* The execute call c ends in this step.
ExecuteEnds(c) ==
    /\ calls'[c].op = "execute"
    /\ calls'[c].state # "pending"
    /\ c \in DOMAIN calls => calls[c].state = "pending"

\* C33: the step in which an execute call returns its result changes, of all
\* session records, only the last-activity stamp of the call's own session,
\* whatever status that session has by then; a step in which an execute call
\* fails changes no session record.
C33_ExecuteTouchesActivityOnly ==
    [][\A c \in DOMAIN calls' : ExecuteEnds(c) =>
          IF calls'[c].state = "resolved"
          THEN /\ connections'[calls[c].id].lastActivity
               /\ connections' = [connections EXCEPT ![calls[c].id].lastActivity = TRUE]
          ELSE connections' = connections]_vars

\* An execute call returned after its session had become disconnected.
C33_Witness ==
    \E c \in DOMAIN calls :
        /\ calls[c].op = "execute"
        /\ calls[c].state = "resolved"
        /\ connections[calls[c].id].status = "disconnected"
        /\ connections[calls[c].id].lastActivity

\* getActiveConnections(), lines 260-262: every record of the registry, in
\* insertion order, here with the identifier it is registered under.
\* Faulty variant: the sessions in connecting or connected only.
getActiveConnectionsLive ==
    LET live == SortedSeq({i \in Known : connections[i].status \in {"connecting", "connected"}})
    IN  [k \in 1..Len(live) |-> [id |-> live[k], connection |-> connections[live[k]]]]
getActiveConnections ==
    LET ids == keys
    IN  [k \in 1..Len(ids) |-> [id |-> ids[k], connection |-> connections[ids[k]]]]

\* getConnection(connectionId), lines 264-266: the record, or undefined (<<>>).
getConnection(id) == IF id \in Known THEN <<connections[id]>> ELSE <<>>

Created == {connectCalls[k].id : k \in DOMAIN connectCalls}

\* C34: no step takes an identifier out of the registry; the listing holds,
\* for every session a connect call ever created, exactly its record, whatever
\* its status, and the lookup of such a session returns that record.
C34_RegistryOnlyGrows ==
    /\ [][Known \subseteq Known']_vars
    /\ [](LET listing == getActiveConnections IN
           /\ {listing[k].id : k \in DOMAIN listing} = Created
           /\ \A k \in DOMAIN listing : listing[k].connection = connections[listing[k].id]
           /\ \A id \in Created : getConnection(id) = <<connections[id]>>)

\* The listing holds a session in error and a disconnected one.
C34_Witness ==
    \E j, k \in DOMAIN getActiveConnections :
        /\ getActiveConnections[j].connection.status = "error"
        /\ getActiveConnections[k].connection.status = "disconnected"
        /\ Len(getActiveConnections) = Len(connectCalls)

\* C35: over the life of a session the disconnected notification is emitted
\* at most once, however the session ends.
C35_DisconnectedOnce ==
    \A id \in Known :
        Len(SelectSeq(notifications[id], LAMBDA kind : kind = "disconnected")) <= 1

\* The k-th connect call is pending; its transport has closed.
ConnectPending(k) ==
    IF k \in DOMAIN connectCalls THEN connectCalls[k].state = "pending" ELSE FALSE
TransportClosed(k) ==
    IF k \in DOMAIN connectCalls THEN transport[connectCalls[k].id].closed ELSE FALSE

\* C36: every connect call settles; in particular a call whose transport has
\* closed, with or without a disconnect, does not stay pending.
C36_ConnectSettles ==
    \A k \in 1..MaxFairSessions :
        (ConnectPending(k) /\ TransportClosed(k)) ~> ~ConnectPending(k)

\* ------------------------------------------------ the key store under failure

\* C37: when no add or remove is in progress the store holds exactly the
\* identifiers that have a file; an add that failed has left no record in the
\* store and emitted no key:added.
C37_AddAtomic ==
    (Running /\ \A c \in DOMAIN keyCalls : keyCalls[c].state # "pending") =>
        /\ DOMAIN storedKeys = DOMAIN keysDirectory.files
        /\ \A c \in DOMAIN keyCalls :
            (keyCalls[c].op = "add" /\ keyCalls[c].state = "rejected" /\ keyCalls[c].id # 0) =>
                /\ keyCalls[c].id \notin DOMAIN storedKeys
                /\ Added(keyCalls[c].id) = 0

\* The remove calls for id that found the record.
Found(id) ==
    {c \in DOMAIN keyCalls : /\ keyCalls[c].op = "remove"
                             /\ keyCalls[c].id = id
                             /\ keyCalls[c].err # "Key not found"}

\* Two remove calls for one identifier that both found the record, and no third.
BothFound(c, d) ==
    /\ c < d
    /\ keyCalls[c].id = keyCalls[d].id
    /\ Found(keyCalls[c].id) = {c, d}

C39_KeyLength ==
    /\ Running => Len(encryptionKey[1]) = KeyLen
    /\ \A a \in DOMAIN keyCalls :
        (keyCalls[a].op = "add" /\ keyCalls[a].supplied \notin {<<>>, << <<>> >>})
        => Len(keyCalls[a].key[1]) = KeyLen

\* The record carries the text x as its private key, as it is or as the base64
\* text of its bytes.
Exposes(record, x) ==
    /\ record.privateKey # <<>>
    /\ \/ record.privateKey[1] = x
       \/ fromBase64(record.privateKey[1]) = toUtf8(x)

\* C40: the private key text supplied to an add is contained neither in the
\* record the add returns, nor in the payload of a key:added or key:removed
\* notification, nor in any record of a listing.
C40_PlaintextStaysInside ==
    \A a \in DOMAIN keyCalls :
        (/\ keyCalls[a].op = "add"
         /\ keyCalls[a].id # 0
         /\ keyCalls[a].supplied \notin {<<>>, << <<>> >>})
        => LET x == keyCalls[a].supplied[1]
               id == keyCalls[a].id
           IN  /\ keyCalls[a].result # <<>> => ~Exposes(keyCalls[a].result[1], x)
               /\ \A k \in DOMAIN keyEvents :
                    (keyEvents[k].id = id /\ keyEvents[k].payload # <<>>)
                    => ~Exposes(keyEvents[k].payload[1], x)
               /\ \A c \in DOMAIN keyCalls :
                    (keyCalls[c].op = "list" /\ id \in DOMAIN keyCalls[c].result[1])
                    => ~Exposes(keyCalls[c].result[1][id], x)

====
